---------------------------- MODULE Spec2Model ----------------------------
(***************************************************************************)
(* A model of the state-tracking and resource-transition core of LLGL:     *)
(*   VKDevice          (sources/Renderer/Vulkan/VKDevice.cpp)              *)
(*   VKRenderContext   (sources/Renderer/Vulkan/VKRenderContext.{h,cpp})   *)
(*   D3D12Device       (sources/Renderer/Direct3D12/D3D12Device.cpp)       *)
(*   D3D12ComputePSO   (sources/Renderer/Direct3D12/RenderState)           *)
(*   GLStateManager    (sources/Renderer/OpenGL/RenderState)               *)
(*   GLProgramPipeline (sources/Renderer/OpenGL/Shader)                    *)
(*   GLOpcode stream   (sources/Renderer/OpenGL/Command)                   *)
(*                                                                         *)
(* Each subsystem has its own specification over the shared variables:     *)
(*   SpecPick    VKRenderContext::PickSwapChainSize as a function          *)
(*   SpecCopy    the image copy operations of VKDevice and the layouts     *)
(*   SpecTransition  VKDevice::TransitionImageLayout as a function         *)
(*   SpecCopyBuffer  the immediate VKDevice::CopyBuffer and the pool       *)
(*   SpecMips    VKDevice::GenerateMips                                    *)
(*   SpecBuf     VKDevice::WriteBuffer / ReadBuffer / FlushMappedBuffer    *)
(*   SpecRC      the VKRenderContext life cycle                            *)
(*   SpecSubmit  the operations that submit to a native queue              *)
(*   SpecSubmitLive  SpecSubmit with a GPU that completes accepted work    *)
(* and of the other back ends:                                             *)
(*   SpecPSO     D3D12ComputePSO (Direct3D12/RenderState)                  *)
(*   SpecGL      GLStateManager (OpenGL/RenderState) and GLProgramPipeline *)
(*   SpecStream  the GL command stream of GLOpcode tags (OpenGL/Command)   *)
(*   SpecSelect  the swap-chain selection functions of VKRenderContext     *)
(*   SpecCreateDevice  D3D12Device::CreateDXDevice as a function           *)
(*   SpecClear   the write masks and clears of GLStateManager              *)
(* A variable a specification does not use keeps the value Idle.           *)
(***************************************************************************)
EXTENDS Integers, Sequences, FiniteSets, TLC

VARIABLES
    fnArgs,     \* arguments of the pure function under call
    fnRet,      \* <<its return value>>, << >> before the call
    imgLayout,  \* layout of every (image, array layer, mip level)
    cmdBuffer,  \* the commands recorded into the VkCommandBuffer
    execPos,    \* number of recorded commands the queue has executed
    devCall,    \* the arguments of the recording call
    mem,        \* device memory chunk: last writer of every byte
    memCall,    \* the last host access to the chunk
    rc,         \* the fields of the VKRenderContext
    rcCall,     \* the last VKRenderContext operation, its native calls and outcome
    fl,         \* VKDevice::FlushCommandBuffer in progress
    pso,        \* the D3D12ComputePSO objects, by address
    cmdContext, \* the D3D12CommandContext: what Bind has set
    gl,         \* the GLStateManager, the GL context it shadows and the GL object names
    glCall,     \* the last call into the GLStateManager and the native calls it issued
    glScope,    \* push/pop tracking of the client: the values before the first push
    glStream    \* the GL command stream: its bytes, what was recorded and replayed

\* the variables of the Direct3D12 and OpenGL back ends
backendVars == <<pso, cmdContext, gl, glCall, glScope, glStream>>

vars == <<fnArgs, fnRet, imgLayout, cmdBuffer, execPos, devCall, mem, memCall, rc, rcCall, fl,
          backendVars>>

Idle == "idle"
None == "none"

Min(a, b) == IF a < b THEN a ELSE b
Max(a, b) == IF a > b THEN a ELSE b

(***************************************************************************)
(* Bounds of the model                                                     *)
(***************************************************************************)
\* largest image count a surface reports or a swap-chain is created with
MaxImages == 4

(***************************************************************************)
(* Program constants                                                       *)
(***************************************************************************)
g_maxNumColorBuffers == 3

(***************************************************************************)
(* VkSurfaceCapabilitiesKHR as reported by the surface.  maxImageCount is  *)
(* either 0 (no limit) or at least minImageCount.                          *)
(***************************************************************************)
ImageCountCaps ==
    { c \in [minImageCount : 1..MaxImages, maxImageCount : 0..MaxImages] :
        c.maxImageCount = 0 \/ c.maxImageCount >= c.minImageCount }

\* desc.swapBuffers: any count up to MaxImages, and the 10 of the spec's example
SwapBufferRequests == (0..MaxImages) \cup {10}

(***************************************************************************)
(* VKRenderContext::PickSwapChainSize                                      *)
(***************************************************************************)
PickSwapChainSize_NoLowerClamp(caps, swapBuffers) ==
    Min(swapBuffers, caps.maxImageCount)

PickSwapChainSize(caps, swapBuffers) ==
    Max(caps.minImageCount, Min(swapBuffers, caps.maxImageCount))

(***************************************************************************)
(* SpecPick: a pure function is called once on arguments drawn by Init.    *)
(***************************************************************************)
PickSizeArgs ==
    [fn : {"PickSwapChainSize"}, caps : ImageCountCaps, swapBuffers : SwapBufferRequests]

OthersIdle(except) ==
    /\ IF "fn"  \in except THEN TRUE ELSE fnArgs = Idle /\ fnRet = Idle
    /\ IF "dev" \in except THEN TRUE
       ELSE imgLayout = Idle /\ cmdBuffer = Idle /\ execPos = Idle /\ devCall = Idle
    /\ IF "mem" \in except THEN TRUE ELSE mem = Idle /\ memCall = Idle
    /\ IF "rc"  \in except THEN TRUE ELSE rc = Idle /\ rcCall = Idle
    /\ IF "fl"  \in except THEN TRUE ELSE fl = Idle
    /\ IF "pso" \in except THEN TRUE ELSE pso = Idle /\ cmdContext = Idle
    /\ IF "gl"  \in except THEN TRUE ELSE gl = Idle /\ glCall = Idle /\ glScope = Idle
    /\ IF "stream" \in except THEN TRUE ELSE glStream = Idle

InitPick ==
    /\ fnArgs \in PickSizeArgs
    /\ fnRet = << >>
    /\ OthersIdle({"fn"})

CallPickSwapChainSize ==
    /\ fnArgs.fn = "PickSwapChainSize"
    /\ fnRet = << >>
    /\ fnRet' = << PickSwapChainSize(fnArgs.caps, fnArgs.swapBuffers) >>
    /\ UNCHANGED <<fnArgs, imgLayout, cmdBuffer, execPos, devCall, mem, memCall, rc, rcCall, fl, backendVars>>

NextPick == CallPickSwapChainSize

SpecPick == InitPick /\ [][NextPick]_vars

(***************************************************************************)
(* C2 (original statement): PickSwapChainSize returns a value inside       *)
(* [minImageCount, maxImageCount] for every requested count and every      *)
(* surface-reported pair.  Fails for maxImageCount = 0.                    *)
(***************************************************************************)
C2_AlwaysInsideRange ==
    (fnArgs.fn = "PickSwapChainSize" /\ fnRet # << >>) =>
        /\ fnRet[1] >= fnArgs.caps.minImageCount
        /\ fnRet[1] <= fnArgs.caps.maxImageCount

(***************************************************************************)
(* C2 (amended): PickSwapChainSize returns at least minImageCount, and at  *)
(* most maxImageCount whenever maxImageCount >= minImageCount; requesting  *)
(* 1 when min = 2 yields 2, requesting 10 when max = 3 (min <= 3) yields   *)
(* 3; when the surface reports maxImageCount = 0 the result is             *)
(* minImageCount whatever was requested.                                   *)
(***************************************************************************)
C2_SwapChainSizeClamp ==
    (fnArgs.fn = "PickSwapChainSize" /\ fnRet # << >>) =>
        LET min == fnArgs.caps.minImageCount
            max == fnArgs.caps.maxImageCount
            req == fnArgs.swapBuffers
        IN  /\ fnRet[1] >= min
            /\ (max >= min) => (fnRet[1] <= max)
            /\ (max >= min /\ min <= req /\ req <= max) => (fnRet[1] = req)
            /\ (req = 1 /\ min = 2) => (fnRet[1] = 2)
            /\ (req = 10 /\ max = 3) => (fnRet[1] = 3)
            /\ (max = 0) => (fnRet[1] = min)

C2_Witness ==
    /\ fnArgs.fn = "PickSwapChainSize" /\ fnRet = <<3>>
    /\ fnArgs.swapBuffers = 10
    /\ fnArgs.caps = [minImageCount |-> 2, maxImageCount |-> 3]

(***************************************************************************)
(* VKDevice: images, layouts and recorded commands                         *)
(***************************************************************************)
\* number of array layers of a model image
MaxLayers == 2
\* number of MIP levels of a model image in SpecCopy
MaxCopyMips == 2

Images == {"imgA", "imgB"}

\* VkImageLayout values
Layouts ==
    { "UNDEFINED", "GENERAL", "COLOR_ATTACHMENT_OPTIMAL", "SHADER_READ_ONLY_OPTIMAL",
      "TRANSFER_SRC_OPTIMAL", "TRANSFER_DST_OPTIMAL" }

\* VkFormat values, one of each aspect class
Formats == { "VK_FORMAT_UNDEFINED", "VK_FORMAT_R8G8B8A8_UNORM", "VK_FORMAT_D32_SFLOAT",
             "VK_FORMAT_D24_UNORM_S8_UINT" }

\* static GetImageAspectForVkFormat
GetImageAspectForVkFormat(format) ==
    IF format \in {"VK_FORMAT_D32_SFLOAT", "VK_FORMAT_D24_UNORM_S8_UINT"}
    THEN IF format = "VK_FORMAT_D24_UNORM_S8_UINT"
         THEN {"DEPTH", "STENCIL"}
         ELSE {"DEPTH"}
    ELSE {"COLOR"}

\* TextureSubresource{ baseArrayLayer, numArrayLayers, baseMipLevel, numMipLevels }
TextureSubresource(baseArrayLayer, numArrayLayers, baseMipLevel, numMipLevels) ==
    [ baseArrayLayer |-> baseArrayLayer, numArrayLayers |-> numArrayLayers,
      baseMipLevel |-> baseMipLevel, numMipLevels |-> numMipLevels ]

\* the (layer, level) pairs of a barrier's VkImageSubresourceRange
RangeOf(baseArrayLayer, layerCount, baseMipLevel, levelCount) ==
    { <<l, m>> : l \in baseArrayLayer .. (baseArrayLayer + layerCount - 1),
                 m \in baseMipLevel .. (baseMipLevel + levelCount - 1) }

SubresourceRangeOf(sub) ==
    RangeOf(sub.baseArrayLayer, sub.numArrayLayers, sub.baseMipLevel, sub.numMipLevels)

\* a variant of TransitionImageLayout without the two first-class layout pairs
TransitionImageLayout_ConservativeOnly(cb, image, format, oldLayout, newLayout, subresource) ==
    Append(cb, [ cmd            |-> "vkCmdPipelineBarrier",
                 image          |-> image,
                 aspectMask     |-> GetImageAspectForVkFormat(format),
                 oldLayout      |-> oldLayout,
                 newLayout      |-> newLayout,
                 baseMipLevel   |-> subresource.baseMipLevel,
                 levelCount     |-> subresource.numMipLevels,
                 baseArrayLayer |-> subresource.baseArrayLayer,
                 layerCount     |-> subresource.numArrayLayers,
                 srcAccessMask  |-> "0",
                 dstAccessMask  |-> "0",
                 srcStageMask   |-> "TOP_OF_PIPE",
                 dstStageMask   |-> "BOTTOM_OF_PIPE" ])

\* VKDevice::TransitionImageLayout: records one vkCmdPipelineBarrier
TransitionImageLayout(cb, image, format, oldLayout, newLayout, subresource) ==
    LET first  == oldLayout = "UNDEFINED" /\ newLayout = "TRANSFER_DST_OPTIMAL"
        second == oldLayout = "TRANSFER_DST_OPTIMAL" /\ newLayout = "SHADER_READ_ONLY_OPTIMAL"
        barrier ==
            [ cmd            |-> "vkCmdPipelineBarrier",
              image          |-> image,
              aspectMask     |-> GetImageAspectForVkFormat(format),
              oldLayout      |-> oldLayout,
              newLayout      |-> newLayout,
              baseMipLevel   |-> subresource.baseMipLevel,
              levelCount     |-> subresource.numMipLevels,
              baseArrayLayer |-> subresource.baseArrayLayer,
              layerCount     |-> subresource.numArrayLayers,
              srcAccessMask  |-> IF second THEN "TRANSFER_WRITE" ELSE "0",
              dstAccessMask  |-> IF first THEN "TRANSFER_WRITE"
                                 ELSE IF second THEN "SHADER_READ" ELSE "0",
              srcStageMask   |-> IF second THEN "TRANSFER" ELSE "TOP_OF_PIPE",
              dstStageMask   |-> IF first THEN "TRANSFER"
                                 ELSE IF second THEN "FRAGMENT_SHADER" ELSE "BOTTOM_OF_PIPE" ]
    IN  Append(cb, barrier)

\* vkCmdCopyImage / vkCmdResolveImage as recorded by CopyImage / ResolveImage
TransferCmd(name, srcImage, dstImage, region) ==
    [ cmd |-> name, srcImage |-> srcImage, srcImageLayout |-> "TRANSFER_SRC_OPTIMAL",
      dstImage |-> dstImage, dstImageLayout |-> "TRANSFER_DST_OPTIMAL", region |-> region ]

\* a variant of CopyImage that restores the destination to the source's layout
CopyImage_RestoreSwapped(cb, srcImage, srcImageLayout, dstImage, dstImageLayout, region, format) ==
    LET srcSub == TextureSubresource(region.srcSubresource.baseArrayLayer,
                      region.srcSubresource.layerCount, region.srcSubresource.mipLevel, 1)
        dstSub == TextureSubresource(region.dstSubresource.baseArrayLayer,
                      region.dstSubresource.layerCount, region.dstSubresource.mipLevel, 1)
        c1 == TransitionImageLayout(cb, srcImage, format, srcImageLayout, "TRANSFER_SRC_OPTIMAL", srcSub)
        c2 == TransitionImageLayout(c1, dstImage, format, dstImageLayout, "TRANSFER_DST_OPTIMAL", dstSub)
        c3 == Append(c2, TransferCmd("vkCmdCopyImage", srcImage, dstImage, region))
        c4 == TransitionImageLayout(c3, srcImage, format, "TRANSFER_SRC_OPTIMAL", srcImageLayout, srcSub)
    IN  TransitionImageLayout(c4, dstImage, format, "TRANSFER_DST_OPTIMAL", srcImageLayout, dstSub)

\* VKDevice::CopyImage
CopyImage(cb, srcImage, srcImageLayout, dstImage, dstImageLayout, region, format) ==
    LET srcImageSubresource ==
            TextureSubresource(region.srcSubresource.baseArrayLayer,
                region.srcSubresource.layerCount, region.srcSubresource.mipLevel, 1)
        dstImageSubresource ==
            TextureSubresource(region.dstSubresource.baseArrayLayer,
                region.dstSubresource.layerCount, region.dstSubresource.mipLevel, 1)
        c1 == TransitionImageLayout(cb, srcImage, format, srcImageLayout,
                  "TRANSFER_SRC_OPTIMAL", srcImageSubresource)
        c2 == TransitionImageLayout(c1, dstImage, format, dstImageLayout,
                  "TRANSFER_DST_OPTIMAL", dstImageSubresource)
        c3 == Append(c2, TransferCmd("vkCmdCopyImage", srcImage, dstImage, region))
        c4 == TransitionImageLayout(c3, srcImage, format, "TRANSFER_SRC_OPTIMAL",
                  srcImageLayout, srcImageSubresource)
    IN  TransitionImageLayout(c4, dstImage, format, "TRANSFER_DST_OPTIMAL",
            dstImageLayout, dstImageSubresource)

\* VKDevice::ResolveImage
ResolveImage(cb, srcImage, srcImageLayout, dstImage, dstImageLayout, region, format) ==
    LET srcImageSubresource ==
            TextureSubresource(region.srcSubresource.baseArrayLayer,
                region.srcSubresource.layerCount, region.srcSubresource.mipLevel, 1)
        dstImageSubresource ==
            TextureSubresource(region.dstSubresource.baseArrayLayer,
                region.dstSubresource.layerCount, region.dstSubresource.mipLevel, 1)
        c1 == TransitionImageLayout(cb, srcImage, format, srcImageLayout,
                  "TRANSFER_SRC_OPTIMAL", srcImageSubresource)
        c2 == TransitionImageLayout(c1, dstImage, format, dstImageLayout,
                  "TRANSFER_DST_OPTIMAL", dstImageSubresource)
        c3 == Append(c2, TransferCmd("vkCmdResolveImage", srcImage, dstImage, region))
        c4 == TransitionImageLayout(c3, srcImage, format, "TRANSFER_SRC_OPTIMAL",
                  srcImageLayout, srcImageSubresource)
    IN  TransitionImageLayout(c4, dstImage, format, "TRANSFER_DST_OPTIMAL",
            dstImageLayout, dstImageSubresource)

\* VKDevice::CopyTexture: records the native copy only
CopyTexture(cb, srcTexture, dstTexture, region) ==
    Append(cb, TransferCmd("vkCmdCopyImage", srcTexture, dstTexture, region))

\* the VkBufferImageCopy of CopyBufferToImage / CopyImageToBuffer
BufferImageCopy(format, subresource) ==
    [ imageSubresource |->
        [ aspectMask     |-> GetImageAspectForVkFormat(format),
          mipLevel       |-> subresource.baseMipLevel,
          baseArrayLayer |-> subresource.baseArrayLayer,
          layerCount     |-> subresource.numArrayLayers ] ]

\* VKDevice::CopyBufferToImage: records the native copy only
CopyBufferToImage(cb, srcBuffer, dstImage, format, subresource) ==
    Append(cb, [ cmd |-> "vkCmdCopyBufferToImage", srcBuffer |-> srcBuffer,
                 dstImage |-> dstImage, dstImageLayout |-> "TRANSFER_DST_OPTIMAL",
                 region |-> BufferImageCopy(format, subresource) ])

\* VKDevice::CopyImageToBuffer: records the native copy only
CopyImageToBuffer(cb, srcImage, dstBuffer, format, subresource) ==
    Append(cb, [ cmd |-> "vkCmdCopyImageToBuffer", srcImage |-> srcImage,
                 srcImageLayout |-> "TRANSFER_SRC_OPTIMAL", dstBuffer |-> dstBuffer,
                 region |-> BufferImageCopy(format, subresource) ])

(***************************************************************************)
(* The queue executes a recorded command: a barrier leaves every           *)
(* subresource of its range in newLayout; a transfer changes no layout.    *)
(***************************************************************************)
ExecuteOn(layout, c) ==
    IF c.cmd = "vkCmdPipelineBarrier"
    THEN [ sr \in DOMAIN layout |->
             IF sr[1] = c.image
                /\ <<sr[2], sr[3]>> \in RangeOf(c.baseArrayLayer, c.layerCount,
                                               c.baseMipLevel, c.levelCount)
             THEN c.newLayout
             ELSE layout[sr] ]
    ELSE layout

ExecuteCommand ==
    /\ execPos < Len(cmdBuffer)
    /\ imgLayout' = ExecuteOn(imgLayout, cmdBuffer[execPos + 1])
    /\ execPos' = execPos + 1
    /\ UNCHANGED <<fnArgs, fnRet, cmdBuffer, devCall, mem, memCall, rc, rcCall, fl, backendVars>>

\* the finished command buffer is released; the next call records into a new one
ReleaseCommandBuffer ==
    /\ cmdBuffer # << >>
    /\ execPos = Len(cmdBuffer)
    /\ cmdBuffer' = << >>
    /\ execPos' = 0
    /\ devCall' = [op |-> None]
    /\ UNCHANGED <<fnArgs, fnRet, imgLayout, mem, memCall, rc, rcCall, fl, backendVars>>

(***************************************************************************)
(* SpecCopy: the image copy operations on two images.  The caller passes   *)
(* as srcImageLayout / dstImageLayout the layout the subresources are in.  *)
(***************************************************************************)
CopyLayers == 0 .. (MaxLayers - 1)
CopyMips   == 0 .. (MaxCopyMips - 1)

\* VkImageSubresourceLayers inside the image
SubresourceLayers ==
    { s \in [baseArrayLayer : CopyLayers, layerCount : 1..MaxLayers, mipLevel : CopyMips] :
        s.baseArrayLayer + s.layerCount <= MaxLayers }

LayersOf(s) == RangeOf(s.baseArrayLayer, s.layerCount, s.mipLevel, 1)

\* every subresource of the range is in layout l
InLayout(image, s, l) ==
    \A lm \in LayersOf(s) : imgLayout[<<image, lm[1], lm[2]>>] = l

InitCopy ==
    /\ \E perImage \in [Images -> Layouts] :
          imgLayout = [ sr \in Images \X CopyLayers \X CopyMips |-> perImage[sr[1]] ]
    /\ cmdBuffer = << >>
    /\ execPos = 0
    /\ devCall = [op |-> None]
    /\ OthersIdle({"dev"})

RecordCopyImage ==
    /\ cmdBuffer = << >>
    /\ \E srcImage \in Images, dstImage \in Images, srcLayout \in Layouts, dstLayout \in Layouts,
          srcSub \in SubresourceLayers, dstSub \in SubresourceLayers :
          LET region == [srcSubresource |-> srcSub, dstSubresource |-> dstSub] IN
          /\ InLayout(srcImage, srcSub, srcLayout)
          /\ InLayout(dstImage, dstSub, dstLayout)
          /\ cmdBuffer' = CopyImage(<< >>, srcImage, srcLayout, dstImage, dstLayout,
                                    region, "VK_FORMAT_R8G8B8A8_UNORM")
          /\ devCall' = [ op |-> "CopyImage", srcImage |-> srcImage, srcImageLayout |-> srcLayout,
                          dstImage |-> dstImage, dstImageLayout |-> dstLayout, region |-> region ]
    /\ execPos' = 0
    /\ UNCHANGED <<fnArgs, fnRet, imgLayout, mem, memCall, rc, rcCall, fl, backendVars>>

RecordResolveImage ==
    /\ cmdBuffer = << >>
    /\ \E srcImage \in Images, dstImage \in Images, srcLayout \in Layouts, dstLayout \in Layouts,
          srcSub \in SubresourceLayers, dstSub \in SubresourceLayers :
          LET region == [srcSubresource |-> srcSub, dstSubresource |-> dstSub] IN
          /\ InLayout(srcImage, srcSub, srcLayout)
          /\ InLayout(dstImage, dstSub, dstLayout)
          /\ cmdBuffer' = ResolveImage(<< >>, srcImage, srcLayout, dstImage, dstLayout,
                                       region, "VK_FORMAT_R8G8B8A8_UNORM")
          /\ devCall' = [ op |-> "ResolveImage", srcImage |-> srcImage, srcImageLayout |-> srcLayout,
                          dstImage |-> dstImage, dstImageLayout |-> dstLayout, region |-> region ]
    /\ execPos' = 0
    /\ UNCHANGED <<fnArgs, fnRet, imgLayout, mem, memCall, rc, rcCall, fl, backendVars>>

\* the one-level subresources CopyBufferToImage / CopyImageToBuffer are called with
CopySubresources ==
    { TextureSubresource(s.baseArrayLayer, s.layerCount, s.mipLevel, 1) :
        s \in SubresourceLayers }

RecordCopyTexture ==
    /\ cmdBuffer = << >>
    /\ \E srcTexture \in Images, dstTexture \in Images,
          srcSub \in SubresourceLayers, dstSub \in SubresourceLayers :
          LET region == [srcSubresource |-> srcSub, dstSubresource |-> dstSub] IN
          /\ cmdBuffer' = CopyTexture(<< >>, srcTexture, dstTexture, region)
          /\ devCall' = [ op |-> "CopyTexture", srcImage |-> srcTexture,
                          dstImage |-> dstTexture, region |-> region ]
    /\ execPos' = 0
    /\ UNCHANGED <<fnArgs, fnRet, imgLayout, mem, memCall, rc, rcCall, fl, backendVars>>

RecordCopyBufferToImage ==
    /\ cmdBuffer = << >>
    /\ \E dstImage \in Images, subresource \in CopySubresources :
          /\ cmdBuffer' = CopyBufferToImage(<< >>, "bufA", dstImage,
                                            "VK_FORMAT_R8G8B8A8_UNORM", subresource)
          /\ devCall' = [ op |-> "CopyBufferToImage", dstImage |-> dstImage,
                          subresource |-> subresource ]
    /\ execPos' = 0
    /\ UNCHANGED <<fnArgs, fnRet, imgLayout, mem, memCall, rc, rcCall, fl, backendVars>>

RecordCopyImageToBuffer ==
    /\ cmdBuffer = << >>
    /\ \E srcImage \in Images, subresource \in CopySubresources :
          /\ cmdBuffer' = CopyImageToBuffer(<< >>, srcImage, "bufA",
                                            "VK_FORMAT_R8G8B8A8_UNORM", subresource)
          /\ devCall' = [ op |-> "CopyImageToBuffer", srcImage |-> srcImage,
                          subresource |-> subresource ]
    /\ execPos' = 0
    /\ UNCHANGED <<fnArgs, fnRet, imgLayout, mem, memCall, rc, rcCall, fl, backendVars>>

NextCopy ==
    \/ RecordCopyImage
    \/ RecordResolveImage
    \/ RecordCopyTexture
    \/ RecordCopyBufferToImage
    \/ RecordCopyImageToBuffer
    \/ ExecuteCommand
    \/ ReleaseCommandBuffer

SpecCopy == InitCopy /\ [][NextCopy]_vars

\* the recorded sequence of a CopyImage / ResolveImage call has executed
CopyExecuted ==
    /\ devCall.op \in {"CopyImage", "ResolveImage"}
    /\ cmdBuffer # << >>
    /\ execPos = Len(cmdBuffer)

(***************************************************************************)
(* C1: once the command sequence recorded by CopyImage or ResolveImage has *)
(* executed, every source subresource is in the caller's srcImageLayout    *)
(* again and every destination subresource in the caller's dstImageLayout. *)
(***************************************************************************)
C1_TransitionRoundTrip ==
    CopyExecuted =>
        /\ InLayout(devCall.srcImage, devCall.region.srcSubresource, devCall.srcImageLayout)
        /\ InLayout(devCall.dstImage, devCall.region.dstSubresource, devCall.dstImageLayout)

\* a copy between two images in different layouts has executed, and in between
\* the images were in the transfer layouts
C1_Witness ==
    /\ CopyExecuted
    /\ devCall.op = "CopyImage"
    /\ devCall.srcImage # devCall.dstImage
    /\ devCall.srcImageLayout = "SHADER_READ_ONLY_OPTIMAL"
    /\ devCall.dstImageLayout = "GENERAL"
    /\ InLayout(devCall.srcImage, devCall.region.srcSubresource, "SHADER_READ_ONLY_OPTIMAL")
    /\ InLayout(devCall.dstImage, devCall.region.dstSubresource, "GENERAL")
    /\ cmdBuffer[3].cmd = "vkCmdCopyImage"


(***************************************************************************)
(* VKDevice::GenerateMips                                                  *)
(***************************************************************************)
\* number of MIP levels of the model image in SpecMips
MaxMipLevels == 9
\* largest width, height or depth of a base extent, beside the 256 of the example
MaxMipDim == 3

VkExtent3D(w, h, d) == [width |-> w, height |-> h, depth |-> d]

\* nextExtent of GenerateMips: every component halved, but at least 1
NextMipExtent_NoMinimum(currExtent) ==
    VkExtent3D(currExtent.width \div 2, currExtent.height \div 2, currExtent.depth \div 2)

NextMipExtent(currExtent) ==
    VkExtent3D(Max(1, currExtent.width \div 2),
               Max(1, currExtent.height \div 2),
               Max(1, currExtent.depth \div 2))

\* vkCmdPipelineBarrier(stages, 1, &barrier) with the local VkImageMemoryBarrier
RecordBarrier(cb, barrier, srcStageMask, dstStageMask) ==
    Append(cb, [ cmd            |-> "vkCmdPipelineBarrier",
                 image          |-> barrier.image,
                 aspectMask     |-> barrier.aspectMask,
                 oldLayout      |-> barrier.oldLayout,
                 newLayout      |-> barrier.newLayout,
                 baseMipLevel   |-> barrier.baseMipLevel,
                 levelCount     |-> barrier.levelCount,
                 baseArrayLayer |-> barrier.baseArrayLayer,
                 layerCount     |-> barrier.layerCount,
                 srcAccessMask  |-> barrier.srcAccessMask,
                 dstAccessMask  |-> barrier.dstAccessMask,
                 srcStageMask   |-> srcStageMask,
                 dstStageMask   |-> dstStageMask ])

\* the iteration without the barrier that makes the previous level the source
GenerateMipLevel_NoSourceBarrier(st, image, aspectMask, subresource, arrayLayer, mipLevel) ==
    LET nextExtent == NextMipExtent(st.currExtent)
        b1 == [ st.barrier EXCEPT
                  !.baseMipLevel   = subresource.baseMipLevel + mipLevel - 1,
                  !.baseArrayLayer = subresource.baseArrayLayer + arrayLayer ]
        blit == [ cmd            |-> "vkCmdBlitImage",
                  image          |-> image,
                  aspectMask     |-> aspectMask,
                  srcMipLevel    |-> subresource.baseMipLevel + mipLevel - 1,
                  srcArrayLayer  |-> subresource.baseArrayLayer + arrayLayer,
                  srcExtent      |-> st.currExtent,
                  srcImageLayout |-> "TRANSFER_SRC_OPTIMAL",
                  dstMipLevel    |-> subresource.baseMipLevel + mipLevel,
                  dstArrayLayer  |-> subresource.baseArrayLayer + arrayLayer,
                  dstExtent      |-> nextExtent,
                  dstImageLayout |-> "TRANSFER_DST_OPTIMAL",
                  arrayLayer     |-> arrayLayer,
                  mipLevel       |-> mipLevel ]
        b2 == [ b1 EXCEPT
                  !.srcAccessMask = "TRANSFER_READ",
                  !.dstAccessMask = "SHADER_READ",
                  !.oldLayout     = "TRANSFER_SRC_OPTIMAL",
                  !.newLayout     = "SHADER_READ_ONLY_OPTIMAL" ]
    IN  [cb |-> RecordBarrier(Append(st.cb, blit), b2, "TRANSFER", "FRAGMENT_SHADER"),
         barrier |-> b2, currExtent |-> nextExtent]

\* one iteration of the inner loop of GenerateMips; st = [cb, barrier, currExtent]
GenerateMipLevel(st, image, aspectMask, subresource, arrayLayer, mipLevel) ==
    LET nextExtent == NextMipExtent(st.currExtent)
        b1 == [ st.barrier EXCEPT
                  !.srcAccessMask  = "TRANSFER_WRITE",
                  !.dstAccessMask  = "TRANSFER_READ",
                  !.oldLayout      = "TRANSFER_DST_OPTIMAL",
                  !.newLayout      = "TRANSFER_SRC_OPTIMAL",
                  !.baseMipLevel   = subresource.baseMipLevel + mipLevel - 1,
                  !.baseArrayLayer = subresource.baseArrayLayer + arrayLayer ]
        cb1 == RecordBarrier(st.cb, b1, "TRANSFER", "TRANSFER")
        blit == [ cmd            |-> "vkCmdBlitImage",
                  image          |-> image,
                  aspectMask     |-> aspectMask,
                  srcMipLevel    |-> subresource.baseMipLevel + mipLevel - 1,
                  srcArrayLayer  |-> subresource.baseArrayLayer + arrayLayer,
                  srcExtent      |-> st.currExtent,
                  srcImageLayout |-> "TRANSFER_SRC_OPTIMAL",
                  dstMipLevel    |-> subresource.baseMipLevel + mipLevel,
                  dstArrayLayer  |-> subresource.baseArrayLayer + arrayLayer,
                  dstExtent      |-> nextExtent,
                  dstImageLayout |-> "TRANSFER_DST_OPTIMAL",
                  arrayLayer     |-> arrayLayer,
                  mipLevel       |-> mipLevel ]
        cb2 == Append(cb1, blit)
        b2 == [ b1 EXCEPT
                  !.srcAccessMask = "TRANSFER_READ",
                  !.dstAccessMask = "SHADER_READ",
                  !.oldLayout     = "TRANSFER_SRC_OPTIMAL",
                  !.newLayout     = "SHADER_READ_ONLY_OPTIMAL" ]
        cb3 == RecordBarrier(cb2, b2, "TRANSFER", "FRAGMENT_SHADER")
    IN  [cb |-> cb3, barrier |-> b2, currExtent |-> nextExtent]

\* for_subrange(mipLevel, 1, subresource.numMipLevels)
RECURSIVE GenerateMipLevels(_, _, _, _, _, _)
GenerateMipLevels(st, image, aspectMask, subresource, arrayLayer, mipLevel) ==
    IF mipLevel < subresource.numMipLevels
    THEN GenerateMipLevels(
             GenerateMipLevel(st, image, aspectMask, subresource, arrayLayer, mipLevel),
             image, aspectMask, subresource, arrayLayer, mipLevel + 1)
    ELSE st

\* one iteration of the outer loop of GenerateMips
GenerateMipLayer(st, image, aspectMask, extent, subresource, arrayLayer) ==
    LET s0 == [st EXCEPT !.currExtent = extent]
        s1 == GenerateMipLevels(s0, image, aspectMask, subresource, arrayLayer, 1)
        b3 == [ s1.barrier EXCEPT
                  !.srcAccessMask = "TRANSFER_WRITE",
                  !.dstAccessMask = "SHADER_READ",
                  !.oldLayout     = "TRANSFER_DST_OPTIMAL",
                  !.newLayout     = "SHADER_READ_ONLY_OPTIMAL",
                  !.baseMipLevel  = subresource.numMipLevels - 1 ]
    IN  [cb |-> RecordBarrier(s1.cb, b3, "TRANSFER", "FRAGMENT_SHADER"),
         barrier |-> b3, currExtent |-> s1.currExtent]

\* for_range(arrayLayer, subresource.numArrayLayers)
RECURSIVE GenerateMipLayers(_, _, _, _, _, _)
GenerateMipLayers(st, image, aspectMask, extent, subresource, arrayLayer) ==
    IF arrayLayer < subresource.numArrayLayers
    THEN GenerateMipLayers(
             GenerateMipLayer(st, image, aspectMask, extent, subresource, arrayLayer),
             image, aspectMask, extent, subresource, arrayLayer + 1)
    ELSE st

\* VKDevice::GenerateMips
GenerateMips(cb, image, format, extent, subresource) ==
    LET cb0 == TransitionImageLayout(cb, image, "VK_FORMAT_UNDEFINED",
                   "SHADER_READ_ONLY_OPTIMAL", "TRANSFER_DST_OPTIMAL", subresource)
        aspectMask == GetImageAspectForVkFormat(format)
        barrier == [ image          |-> image,
                     aspectMask     |-> aspectMask,
                     srcAccessMask  |-> "0",
                     dstAccessMask  |-> "0",
                     oldLayout      |-> "UNDEFINED",
                     newLayout      |-> "UNDEFINED",
                     baseMipLevel   |-> subresource.baseMipLevel,
                     levelCount     |-> 1,
                     baseArrayLayer |-> subresource.baseArrayLayer,
                     layerCount     |-> 1 ]
    IN  GenerateMipLayers([cb |-> cb0, barrier |-> barrier, currExtent |-> extent],
                          image, aspectMask, extent, subresource, 0).cb

(***************************************************************************)
(* SpecMips: GenerateMips on one image whose levels are all in             *)
(* shader-read-only layout.                                                *)
(***************************************************************************)
MipDims == (1 .. MaxMipDim) \cup {256}

MipExtents ==
    { VkExtent3D(w, h, d) : w \in MipDims, h \in MipDims, d \in {1, MaxMipDim} }

MipSubresources ==
    { sub \in [ baseArrayLayer : 0 .. (MaxLayers - 1), numArrayLayers : 1 .. MaxLayers,
                baseMipLevel : 0 .. 1, numMipLevels : 1 .. MaxMipLevels ] :
        /\ sub.baseArrayLayer + sub.numArrayLayers <= MaxLayers
        /\ sub.baseMipLevel + sub.numMipLevels <= MaxMipLevels }

InitMips ==
    /\ imgLayout = [ sr \in {"imgA"} \X (0 .. (MaxLayers - 1)) \X (0 .. (MaxMipLevels - 1))
                        |-> "SHADER_READ_ONLY_OPTIMAL" ]
    /\ cmdBuffer = << >>
    /\ execPos = 0
    /\ devCall = [op |-> None]
    /\ OthersIdle({"dev"})

RecordGenerateMips ==
    /\ cmdBuffer = << >>
    /\ \A sr \in DOMAIN imgLayout : imgLayout[sr] = "SHADER_READ_ONLY_OPTIMAL"
    /\ \E extent \in MipExtents, subresource \in MipSubresources :
          /\ cmdBuffer' = GenerateMips(<< >>, "imgA", "VK_FORMAT_R8G8B8A8_UNORM",
                                       extent, subresource)
          /\ devCall' = [ op |-> "GenerateMips", image |-> "imgA", extent |-> extent,
                          subresource |-> subresource ]
    /\ execPos' = 0
    /\ UNCHANGED <<fnArgs, fnRet, imgLayout, mem, memCall, rc, rcCall, fl, backendVars>>

NextMips ==
    \/ RecordGenerateMips
    \/ ExecuteCommand

SpecMips == InitMips /\ [][NextMips]_vars

\* the blits recorded by the GenerateMips call, in recording order
RECURSIVE BlitsOf(_)
BlitsOf(cb) ==
    IF cb = << >> THEN << >>
    ELSE IF Head(cb).cmd = "vkCmdBlitImage"
         THEN <<Head(cb)>> \o BlitsOf(Tail(cb))
         ELSE BlitsOf(Tail(cb))

RECURSIVE Pow2(_)
Pow2(n) == IF n = 0 THEN 1 ELSE 2 * Pow2(n - 1)

\* max(1, x >> i)
ShiftedDim(x, i) == Max(1, x \div Pow2(i))

(***************************************************************************)
(* C5: for every base extent (W,H,D) and level count K, GenerateMips       *)
(* records for every array layer of the range exactly the blits into       *)
(* levels i = 1..K-1, and the destination extent of the blit into level i  *)
(* is (max(1, W>>i), max(1, H>>i), max(1, D>>i)), in every array layer;    *)
(* for W=256, H=256, D=1, K=9 the level-8 extent is (1,1,1).               *)
(***************************************************************************)
C5_MipExtents ==
    (devCall.op = "GenerateMips") =>
        LET blits == BlitsOf(cmdBuffer)
            sub   == devCall.subresource
            ext   == devCall.extent
            K     == sub.numMipLevels
        IN  /\ Len(blits) = sub.numArrayLayers * (K - 1)
            /\ \A n \in 1 .. Len(blits) :
                  LET a == (n - 1) \div (K - 1)
                      i == ((n - 1) % (K - 1)) + 1
                  IN  /\ blits[n].arrayLayer = a
                      /\ blits[n].mipLevel = i
                      /\ blits[n].dstMipLevel = sub.baseMipLevel + i
                      /\ blits[n].dstArrayLayer = sub.baseArrayLayer + a
                      /\ blits[n].dstExtent = VkExtent3D(ShiftedDim(ext.width, i),
                                                         ShiftedDim(ext.height, i),
                                                         ShiftedDim(ext.depth, i))
            /\ (ext = VkExtent3D(256, 256, 1) /\ K = 9) =>
                  \A n \in 1 .. Len(blits) :
                      blits[n].mipLevel = 8 => blits[n].dstExtent = VkExtent3D(1, 1, 1)

\* the example of the claim, on two array layers: the second layer's level 8
\* is generated at (1,1,1), and its level 1 at (128,128,1)
C5_Witness ==
    /\ devCall.op = "GenerateMips"
    /\ devCall.extent = VkExtent3D(256, 256, 1)
    /\ devCall.subresource.numMipLevels = 9
    /\ devCall.subresource.numArrayLayers = 2
    /\ LET blits == BlitsOf(cmdBuffer)
       IN  /\ Len(blits) = 16
           /\ blits[16].mipLevel = 8 /\ blits[16].arrayLayer = 1
           /\ blits[16].dstExtent = VkExtent3D(1, 1, 1)
           /\ blits[9].mipLevel = 1 /\ blits[9].arrayLayer = 1
           /\ blits[9].dstExtent = VkExtent3D(128, 128, 1)

\* the commands GenerateMips recorded have all been executed
MipsExecuted == devCall.op = "GenerateMips" /\ execPos = Len(cmdBuffer)

\* the barriers recorded by the GenerateMips call
BarriersOf(cb) == { p \in 1 .. Len(cb) : cb[p].cmd = "vkCmdPipelineBarrier" }

(***************************************************************************)
(* C18: for a range with numMipLevels >= 2 of an image in shader-read-only *)
(* layout, after the commands of GenerateMips have executed every (array   *)
(* layer, MIP level) of the range is in shader-read-only layout again, the *)
(* last generated level baseMipLevel + numMipLevels - 1 included, and no   *)
(* barrier was recorded for a level outside the range.                     *)
(***************************************************************************)
C18_MipFinalLayouts ==
    (MipsExecuted /\ devCall.subresource.numMipLevels >= 2) =>
        /\ \A lm \in SubresourceRangeOf(devCall.subresource) :
               imgLayout[<<devCall.image, lm[1], lm[2]>>] = "SHADER_READ_ONLY_OPTIMAL"
        /\ \A p \in BarriersOf(cmdBuffer) :
               RangeOf(cmdBuffer[p].baseArrayLayer, cmdBuffer[p].layerCount,
                       cmdBuffer[p].baseMipLevel, cmdBuffer[p].levelCount)
                   \subseteq SubresourceRangeOf(devCall.subresource)

(***************************************************************************)
(* C19: for a range with numMipLevels = 1 GenerateMips records no blit,    *)
(* and after its commands have executed every array layer of the range is  *)
(* back in shader-read-only layout.                                        *)
(***************************************************************************)
C19_SingleLevelLayouts ==
    (MipsExecuted /\ devCall.subresource.numMipLevels = 1) =>
        /\ BlitsOf(cmdBuffer) = << >>
        /\ \A lm \in SubresourceRangeOf(devCall.subresource) :
               imgLayout[<<devCall.image, lm[1], lm[2]>>] = "SHADER_READ_ONLY_OPTIMAL"

(***************************************************************************)
(* C20: within each array layer GenerateMips records its blits with        *)
(* destination levels base+1, ..., base+K-1 in ascending order; each blit  *)
(* reads level dst-1 of the same layer; the command recorded right before  *)
(* a blit is the barrier that moves its source level to transfer-src, so   *)
(* that barrier comes after the blit that wrote the level; and when the    *)
(* blit executes its source is in transfer-src and its destination in      *)
(* transfer-dst layout.                                                    *)
(***************************************************************************)
C20_MipLevelOrder ==
    (devCall.op = "GenerateMips") =>
        LET sub   == devCall.subresource
            K     == sub.numMipLevels
            isBlit(p) == cmdBuffer[p].cmd = "vkCmdBlitImage"
            blitPositions == { p \in 1 .. Len(cmdBuffer) : isBlit(p) }
        IN  /\ \A p \in blitPositions :
                  LET blit == cmdBuffer[p]
                      prev == cmdBuffer[p - 1]
                  IN  /\ blit.srcMipLevel = blit.dstMipLevel - 1
                      /\ blit.srcArrayLayer = blit.dstArrayLayer
                      /\ blit.dstMipLevel \in (sub.baseMipLevel + 1) .. (sub.baseMipLevel + K - 1)
                      /\ prev.cmd = "vkCmdPipelineBarrier"
                      /\ prev.newLayout = "TRANSFER_SRC_OPTIMAL"
                      /\ RangeOf(prev.baseArrayLayer, prev.layerCount,
                                 prev.baseMipLevel, prev.levelCount)
                             = { <<blit.srcArrayLayer, blit.srcMipLevel>> }
                      /\ \A q \in blitPositions :
                            /\ (q < p /\ cmdBuffer[q].dstArrayLayer = blit.dstArrayLayer)
                                   => cmdBuffer[q].dstMipLevel < blit.dstMipLevel
                            /\ ( /\ cmdBuffer[q].dstArrayLayer = blit.srcArrayLayer
                                 /\ cmdBuffer[q].dstMipLevel = blit.srcMipLevel ) => q < p - 1
            /\ \A a \in sub.baseArrayLayer .. (sub.baseArrayLayer + sub.numArrayLayers - 1),
                  m \in (sub.baseMipLevel + 1) .. (sub.baseMipLevel + K - 1) :
                  \E p \in blitPositions :
                      cmdBuffer[p].dstArrayLayer = a /\ cmdBuffer[p].dstMipLevel = m
            /\ (execPos < Len(cmdBuffer) /\ isBlit(execPos + 1)) =>
                  LET blit == cmdBuffer[execPos + 1]
                  IN  /\ imgLayout[<<devCall.image, blit.srcArrayLayer, blit.srcMipLevel>>]
                             = "TRANSFER_SRC_OPTIMAL"
                      /\ imgLayout[<<devCall.image, blit.dstArrayLayer, blit.dstMipLevel>>]
                             = "TRANSFER_DST_OPTIMAL"

\* the queue is about to execute the blit into the last level of the second
\* layer of a range that does not start at level 0
C20_Witness ==
    /\ devCall.op = "GenerateMips"
    /\ devCall.subresource.baseMipLevel = 1
    /\ devCall.subresource.numMipLevels = 3
    /\ devCall.subresource.numArrayLayers = 2
    /\ execPos < Len(cmdBuffer)
    /\ cmdBuffer[execPos + 1].cmd = "vkCmdBlitImage"
    /\ cmdBuffer[execPos + 1].dstMipLevel = 3
    /\ cmdBuffer[execPos + 1].dstArrayLayer = 1


(***************************************************************************)
(* VKDevice::WriteBuffer / ReadBuffer / FlushMappedBuffer                  *)
(*                                                                         *)
(* One VKDeviceMemory chunk of ChunkSize bytes backs the regions of two    *)
(* buffers; a third buffer has no region (GetMemoryRegion() == nullptr).   *)
(* mem.bytes[i] names the buffer whose data was last written to byte i.    *)
(***************************************************************************)
\* size of the device memory chunk in bytes
ChunkSize == 4

Buffers == {"bufA", "bufB", "bufNoRegion"}

ChunkBytes == 0 .. (ChunkSize - 1)

NullRegion == [bound |-> FALSE, offset |-> 0, size |-> 0]

\* the bytes [offset, offset + size) of the chunk
ByteRange(offset, size) == offset .. (offset + size - 1)

\* host access through a mapping of [offset, offset + size) of the parent chunk
MappedWrite(bytes, buffer, offset, size) ==
    [ i \in DOMAIN bytes |-> IF i \in ByteRange(offset, size) THEN buffer ELSE bytes[i] ]

\* region->GetOffset() + offset
ChunkOffset(region, offset) == region.offset + offset

InitBuf ==
    /\ \E split \in 1 .. (ChunkSize - 1) :
          mem = [ bytes   |-> [i \in ChunkBytes |-> None],
                  regions |-> [ b \in Buffers |->
                                  CASE b = "bufA" -> [bound |-> TRUE, offset |-> 0, size |-> split]
                                    [] b = "bufB" -> [bound |-> TRUE, offset |-> split,
                                                      size |-> ChunkSize - split]
                                    [] OTHER -> NullRegion ] ]
    /\ memCall = [op |-> None]
    /\ OthersIdle({"mem"})

\* the record of a host access: which bytes of the chunk it touched
HostAccess(op, buffer, offset, size, touched, outcome) ==
    [ op |-> op, buffer |-> buffer, offset |-> offset, size |-> size,
      touched |-> touched, outcome |-> outcome ]

\* the caller's request stays inside the chunk (a valid vkMapMemory range)
RequestsFor(region) ==
    { r \in [offset : 0 .. ChunkSize, size : 1 .. ChunkSize] :
        region.offset + r.offset + r.size <= ChunkSize }

\* VKDevice::WriteBuffer; mapped = FALSE: VKDeviceMemory::Map returned nullptr
WriteBuffer ==
    /\ \E buffer \in Buffers :
          LET region == mem.regions[buffer] IN
          IF region.bound
          THEN \E r \in RequestsFor(region), mapped \in BOOLEAN :
                  LET at == ChunkOffset(region, r.offset) IN
                  IF mapped
                  THEN /\ mem' = [mem EXCEPT !.bytes = MappedWrite(@, buffer, at, r.size)]
                       /\ memCall' = HostAccess("WriteBuffer", buffer, r.offset, r.size,
                                                ByteRange(at, r.size), "written")
                  ELSE /\ mem' = mem
                       /\ memCall' = HostAccess("WriteBuffer", buffer, r.offset, r.size,
                                                {}, "not mapped")
          ELSE /\ mem' = mem
               /\ memCall' = HostAccess("WriteBuffer", buffer, 0, 0, {}, "no region")
    /\ UNCHANGED <<fnArgs, fnRet, imgLayout, cmdBuffer, execPos, devCall, rc, rcCall, fl, backendVars>>

\* VKDevice::ReadBuffer
ReadBuffer ==
    /\ \E buffer \in Buffers :
          LET region == mem.regions[buffer] IN
          IF region.bound
          THEN \E r \in RequestsFor(region), mapped \in BOOLEAN :
                  LET at == ChunkOffset(region, r.offset) IN
                  IF mapped
                  THEN memCall' = HostAccess("ReadBuffer", buffer, r.offset, r.size,
                                             ByteRange(at, r.size), "read")
                  ELSE memCall' = HostAccess("ReadBuffer", buffer, r.offset, r.size,
                                             {}, "not mapped")
          ELSE memCall' = HostAccess("ReadBuffer", buffer, 0, 0, {}, "no region")
    /\ UNCHANGED <<fnArgs, fnRet, imgLayout, cmdBuffer, execPos, devCall, mem, rc, rcCall, fl, backendVars>>

\* VKDevice::FlushMappedBuffer; ok = FALSE: vkFlushMappedMemoryRanges failed
FlushMappedBuffer ==
    /\ \E buffer \in Buffers :
          LET region == mem.regions[buffer] IN
          IF region.bound
          THEN \E r \in RequestsFor(region), ok \in BOOLEAN :
                  LET at == ChunkOffset(region, r.offset) IN
                  IF ok
                  THEN memCall' = HostAccess("FlushMappedBuffer", buffer, r.offset, r.size,
                                             ByteRange(at, r.size), "flushed")
                  ELSE memCall' = HostAccess("FlushMappedBuffer", buffer, r.offset, r.size,
                                             {}, "failed to flush mapped memory range")
          ELSE memCall' = HostAccess("FlushMappedBuffer", buffer, 0, 0, {}, "no region")
    /\ UNCHANGED <<fnArgs, fnRet, imgLayout, cmdBuffer, execPos, devCall, mem, rc, rcCall, fl, backendVars>>

NextBuf ==
    \/ WriteBuffer
    \/ ReadBuffer
    \/ FlushMappedBuffer

SpecBuf == InitBuf /\ [][NextBuf]_vars

\* the bytes of the chunk that belong to the buffer's region
RegionBytes(buffer) == ByteRange(mem.regions[buffer].offset, mem.regions[buffer].size)

(***************************************************************************)
(* C6: a host access (write, read, flush) of a buffer touches only bytes   *)
(* of the buffer's own region, and a request with offset + size beyond the *)
(* region's size touches nothing.  The code does not check the request     *)
(* against the region's size, so this fails.                               *)
(***************************************************************************)
C6_HostAccessInsideRegion ==
    (memCall.op # None) =>
        /\ memCall.touched \subseteq RegionBytes(memCall.buffer)
        /\ (memCall.offset + memCall.size > mem.regions[memCall.buffer].size)
              => (memCall.touched = {})
        /\ \A i \in ChunkBytes :
              mem.bytes[i] # None => i \in RegionBytes(mem.bytes[i])


(***************************************************************************)
(* VKRenderContext                                                         *)
(*                                                                         *)
(* A native object is modelled by a handle that tells its age (see NewId); *)
(* handle 0 is VK_NULL_HANDLE.  An operation works on a record             *)
(*   w = [rc, calls, thrown]                                               *)
(* of the context's fields, the native calls issued so far and the message *)
(* of the exception thrown (NoThrow: none).  After a throw the remaining   *)
(* steps of the operation are skipped.  The environment of an operation is *)
(*   env = [fail, caps, numImages, acquire, stray, garbage]                *)
(* the native call that fails (NoFail: none), the capabilities the surface *)
(* reports on a query, the number of images the driver gives a new         *)
(* swap-chain (never fewer than asked for) and the index the acquire       *)
(* returns (AcquireFails: it fails and writes none).                       *)
(*                                                                         *)
(* The arrays of the class have g_maxNumColorBuffers elements.  A store    *)
(* past the end sets rc.overrun and has one of the outcomes of StoreAt;    *)
(* stray is the outcome and garbage the value it leaves behind.            *)
(***************************************************************************)
\* largest v-sync interval
MaxVsync == 1

NoThrow == ""
NoFail == ""
AcquireFails == -1

Extents == { <<1, 1>>, <<2, 2>> }
NullExtent == <<0, 0>>

\* the extent limits a surface reports: one admits every resolution of the
\* model, the other only <<2, 2>>
ExtentCaps ==
    { [minImageExtent |-> <<1, 1>>, maxImageExtent |-> <<2, 2>>],
      [minImageExtent |-> <<2, 2>>, maxImageExtent |-> <<2, 2>>] }

\* the present modes the surface supports
SurfacePresentModes == <<"VK_PRESENT_MODE_MAILBOX_KHR", "VK_PRESENT_MODE_FIFO_KHR">>

Slots == 0 .. (g_maxNumColorBuffers - 1)

NullSemaphore == [id |-> 0, signals |-> 0]
NullSwapChain == [id |-> 0, extent |-> NullExtent, minImageCount |-> 0, numImages |-> 0,
                  presentMode |-> None]
NullImageView == [id |-> 0, image |-> 0]
NullFramebuffer == [id |-> 0, extent |-> NullExtent, color |-> 0, depthStencil |-> 0, colorMS |-> 0]
NullBuffer == [id |-> 0, extent |-> NullExtent]

\* a native call, as it appears in the list of calls of an operation
Ev(fn, obj, idx) == [fn |-> fn, obj |-> obj, idx |-> idx]

Call(w, ev) == [w EXCEPT !.calls = Append(@, ev)]
Throw(w, msg) == [w EXCEPT !.thrown = msg]

\* VKPtr<T>::ReleaseAndGetAddressOf / Release / move assignment: destroys a live object
Destroy(w, live, fn, obj, idx) == IF live THEN Call(w, Ev(fn, obj, idx)) ELSE w

\* Handles are named by their age: 0 is VK_NULL_HANDLE, 2 is an object the
\* operation in progress (or the last one that changed a field) created, 1 an
\* object that existed before it, and 3 a handle whose object has been
\* destroyed or replaced since.
NewId(w) == 2
IsNew(id) == id = 2
IsOld(id) == id = 1
IsDangling(id) == id = 3
AgeId(id) == IF id = 0 THEN 0 ELSE 1
AgeRef(ref, target) == IF ref = 0 THEN 0 ELSE IF ref = target THEN 1 ELSE 3

\* the fields as the next operation finds them: every object is an old one
Age(r) ==
    [r EXCEPT
        !.surface_ = AgeId(@),
        !.swapChain_.id = AgeId(@),
        !.swapChainRenderPass_ = AgeId(@),
        !.secondaryRenderPass_ = AgeId(@),
        !.swapChainImages_ = [i \in Slots |-> AgeRef(@[i], r.swapChain_.id)],
        !.swapChainImageViews_ =
            [i \in Slots |-> [ id    |-> AgeId(@[i].id),
                               image |-> AgeRef(@[i].image, r.swapChain_.id) ]],
        !.swapChainFramebuffers_ =
            [i \in Slots |->
                [@[i] EXCEPT
                    !.id = AgeId(@),
                    !.color = AgeRef(@, r.swapChainImageViews_[i].id),
                    !.depthStencil = AgeRef(@, r.depthStencilBuffer_.id),
                    !.colorMS = AgeRef(@, r.colorBuffers_[i].id)]],
        !.depthStencilBuffer_.id = AgeId(@),
        !.colorBuffers_ = [i \in Slots |-> [@[i] EXCEPT !.id = AgeId(@)]],
        !.imageAvailableSemaphore_.id = AgeId(@),
        !.renderFinishedSemaphore_.id = AgeId(@)]

\* VKRenderContext::PickSwapExtent
PickSwapExtent(caps, resolution) ==
    << Max(caps.minImageExtent[1], Min(caps.maxImageExtent[1], resolution[1])),
       Max(caps.minImageExtent[2], Min(caps.maxImageExtent[2], resolution[2])) >>

\* VKRenderContext::PickSwapPresentMode
RECURSIVE FirstNonBlockingMode(_)
FirstNonBlockingMode(presentModes) ==
    IF presentModes = << >> THEN None
    ELSE IF Head(presentModes) \in {"VK_PRESENT_MODE_MAILBOX_KHR", "VK_PRESENT_MODE_IMMEDIATE_KHR"}
         THEN Head(presentModes)
         ELSE FirstNonBlockingMode(Tail(presentModes))

PickSwapPresentMode_IgnoreVsync(presentModes, vsyncInterval) ==
    IF FirstNonBlockingMode(presentModes) # None
    THEN FirstNonBlockingMode(presentModes)
    ELSE "VK_PRESENT_MODE_FIFO_KHR"

PickSwapPresentMode(presentModes, vsyncInterval) ==
    IF vsyncInterval = 0 /\ FirstNonBlockingMode(presentModes) # None
    THEN FirstNonBlockingMode(presentModes)
    ELSE "VK_PRESENT_MODE_FIFO_KHR"

\* VKRenderContext::HasDepthStencilBuffer, HasMultiSampling
HasDepthStencilBuffer(r) == r.depthStencilFormat_ # "VK_FORMAT_UNDEFINED"
HasMultiSampling(r) == r.swapChainSamples_ > 1

\* VKRenderContext::CreateGpuSemaphore
CreateGpuSemaphore(w, env, name) ==
    IF w.thrown # NoThrow THEN w
    ELSE LET w1 == Destroy(w, w.rc[name].id # 0, "vkDestroySemaphore", name, 0)
             w2 == Call(w1, Ev("vkCreateSemaphore", name, 0))
         IN  IF env.fail = "vkCreateSemaphore"
             THEN Throw([w2 EXCEPT !.rc[name] = NullSemaphore], "failed to create Vulkan semaphore")
             ELSE [w2 EXCEPT !.rc[name] = [id |-> NewId(w), signals |-> 0]]

\* VKRenderContext::CreatePresentSemaphores
CreatePresentSemaphores(w, env) ==
    CreateGpuSemaphore(CreateGpuSemaphore(w, env, "imageAvailableSemaphore_"),
                       env, "renderFinishedSemaphore_")

\* VKRenderContext::CreateGpuSurface
CreateGpuSurface(w, env) ==
    IF w.thrown # NoThrow THEN w
    ELSE LET w1 == Destroy(w, w.rc.swapChain_.id # 0, "vkDestroySwapchainKHR", "swapChain_", 0)
             w2 == [w1 EXCEPT !.rc.swapChain_ = NullSwapChain]
             w3 == Destroy(w2, w.rc.surface_ # 0, "vkDestroySurfaceKHR", "surface_", 0)
             w4 == Call(w3, Ev("vkCreateXlibSurfaceKHR", "surface_", 0))
         IN  IF env.fail = "vkCreateXlibSurfaceKHR"
             THEN Throw([w4 EXCEPT !.rc.surface_ = 0],
                        "failed to create Xlib surface for Vulkan render context")
             ELSE [w4 EXCEPT !.rc.surface_ = NewId(w),
                             !.rc.surfaceCaps = env.caps]

\* VKRenderContext::AcquireNextPresentImage: the result of vkAcquireNextImageKHR is dropped
AcquireNextPresentImage(w, env) ==
    IF w.thrown # NoThrow THEN w
    ELSE LET w1 == Call(w, [fn |-> "vkAcquireNextImageKHR", obj |-> "swapChain_", idx |-> 0,
                            signal |-> w.rc.imageAvailableSemaphore_.id,
                            pending |-> w.rc.imageAvailableSemaphore_.signals,
                            acquired |-> env.acquire])
         IN  IF env.acquire = AcquireFails
             THEN w1
             ELSE [w1 EXCEPT !.rc.presentImageIndex_ = env.acquire,
                             !.rc.imageAvailableSemaphore_.signals = Min(2, @ + 1)]

\* A store to element i of one of the g_maxNumColorBuffers-element arrays. A
\* store past the end is undefined behaviour: it changes no element of the
\* array; it either is lost in memory the model does not follow, or (after
\* swapChainFramebuffers_) lands on numSwapChainBuffers_, the member declared
\* next, and leaves env.garbage there.
StoreAt(w, env, field, i, value) ==
    IF i \in Slots
    THEN [w EXCEPT !.rc[field][i] = value]
    ELSE [w EXCEPT !.rc.overrun = TRUE,
                   !.rc.numSwapChainBuffers_ =
                       IF env.stray = "clobber" /\ field = "swapChainFramebuffers_"
                       THEN env.garbage ELSE @]

\* A read of element i; past the end it yields whatever lies there
ReadAt(array, i, garbage) == IF i \in Slots THEN array[i] ELSE garbage

\* the loop of VKRenderContext::CreateSwapChainImageViews, from index i on
RECURSIVE CreateSwapChainImageViewsFrom(_, _, _)
CreateSwapChainImageViewsFrom(w, env, i) ==
    IF w.thrown # NoThrow \/ i >= w.rc.numSwapChainBuffers_ THEN w
    ELSE LET w1 == Call(w, Ev("vkCreateImageView", "swapChainImageViews_", i))
         IN  IF env.fail = "vkCreateImageView"
             THEN Throw(w1, "failed to create Vulkan swap-chain image view")
             ELSE LET w2 == Destroy(w1, ReadAt(w.rc.swapChainImageViews_, i, NullImageView).id # 0,
                                    "vkDestroyImageView", "swapChainImageViews_", i)
                      w3 == StoreAt(w2, env, "swapChainImageViews_", i,
                                    [id |-> NewId(w), image |-> ReadAt(w.rc.swapChainImages_, i, 3)])
                  IN  CreateSwapChainImageViewsFrom(w3, env, i + 1)

\* VKRenderContext::CreateSwapChainImageViews
CreateSwapChainImageViews(w, env) == CreateSwapChainImageViewsFrom(w, env, 0)

\* the images vkGetSwapchainImagesKHR writes to swapChainImages_, from index i on
RECURSIVE GetSwapchainImagesFrom(_, _, _)
GetSwapchainImagesFrom(w, env, i) ==
    IF i >= w.rc.swapChain_.numImages THEN w
    ELSE GetSwapchainImagesFrom(StoreAt(w, env, "swapChainImages_", i, NewId(w)), env, i + 1)

\* VKRenderContext::CreateSwapChain
CreateSwapChain(w, env, resolution, vsyncInterval) ==
    IF w.thrown # NoThrow THEN w
    ELSE LET extent == PickSwapExtent(w.rc.surfaceCaps, resolution)
             presentMode == PickSwapPresentMode(w.rc.presentModes, vsyncInterval)
             w1 == [w EXCEPT !.rc.swapChainExtent_ = extent]
             w2 == Destroy(w1, w.rc.swapChain_.id # 0, "vkDestroySwapchainKHR", "swapChain_", 0)
             w3 == Call(w2, Ev("vkCreateSwapchainKHR", "swapChain_", 0))
             numImages == Max(w.rc.numSwapChainBuffers_, env.numImages)
         IN  IF env.fail = "vkCreateSwapchainKHR"
             THEN Throw([w3 EXCEPT !.rc.swapChain_ = NullSwapChain],
                        "failed to create Vulkan swap-chain")
             ELSE LET w4 == [w3 EXCEPT !.rc.swapChain_ =
                                [ id |-> NewId(w), extent |-> extent,
                                  minImageCount |-> w.rc.numSwapChainBuffers_,
                                  numImages |-> numImages, presentMode |-> presentMode ]]
                      w5 == Call(w4, Ev("vkGetSwapchainImagesKHR", "numSwapChainBuffers_", 0))
                  IN  IF env.fail = "vkGetSwapchainImagesKHR"
                      THEN Throw(w5, "failed to query number of Vulkan swap-chain images")
                      ELSE LET w6 == [w5 EXCEPT !.rc.numSwapChainBuffers_ = numImages]
                               w7 == Call(w6, Ev("vkGetSwapchainImagesKHR", "swapChainImages_", 0))
                           IN  IF env.fail = "vkGetSwapchainImagesKHR(pSwapchainImages)"
                               THEN Throw(w7, "failed to query Vulkan swap-chain images")
                               ELSE AcquireNextPresentImage(
                                        CreateSwapChainImageViews(
                                            GetSwapchainImagesFrom(w7, env, 0), env), env)

\* the loop of VKRenderContext::CreateSwapChainFramebuffers, from index i on
RECURSIVE CreateSwapChainFramebuffersFrom(_, _, _)
CreateSwapChainFramebuffersFrom(w, env, i) ==
    IF w.thrown # NoThrow \/ i >= w.rc.numSwapChainBuffers_ THEN w
    ELSE LET w1 == Call(w, Ev("vkCreateFramebuffer", "swapChainFramebuffers_", i))
         IN  IF env.fail = "vkCreateFramebuffer"
             THEN Throw(w1, "failed to create Vulkan swap-chain framebuffer")
             ELSE LET w2 == Destroy(w1, ReadAt(w.rc.swapChainFramebuffers_, i, NullFramebuffer).id # 0,
                                    "vkDestroyFramebuffer", "swapChainFramebuffers_", i)
                      fb == [ id |-> NewId(w),
                              extent |-> w.rc.swapChainExtent_,
                              color |-> ReadAt(w.rc.swapChainImageViews_, i, NullImageView).id,
                              depthStencil |-> IF HasDepthStencilBuffer(w.rc)
                                               THEN w.rc.depthStencilBuffer_.id ELSE 0,
                              colorMS |-> IF HasMultiSampling(w.rc)
                                          THEN ReadAt(w.rc.colorBuffers_, i, NullBuffer).id ELSE 0 ]
                  IN  CreateSwapChainFramebuffersFrom(
                          StoreAt(w2, env, "swapChainFramebuffers_", i, fb), env, i + 1)

\* VKRenderContext::CreateSwapChainFramebuffers
CreateSwapChainFramebuffers(w, env) == CreateSwapChainFramebuffersFrom(w, env, 0)

\* VKRenderContext::CreateDepthStencilBuffer
CreateDepthStencilBuffer(w, env, resolution) ==
    IF w.thrown # NoThrow THEN w
    ELSE LET w1 == Call(w, Ev("VKDepthStencilBuffer::Create", "depthStencilBuffer_", 0))
         IN  IF env.fail = "VKDepthStencilBuffer::Create"
             THEN Throw([w1 EXCEPT !.rc.depthStencilBuffer_ = NullBuffer],
                        "failed to create Vulkan image")
             ELSE [w1 EXCEPT !.rc.depthStencilBuffer_ = [id |-> NewId(w), extent |-> resolution]]

\* the loop of VKRenderContext::CreateColorBuffers, from index i on
RECURSIVE CreateColorBuffersFrom(_, _, _, _)
CreateColorBuffersFrom(w, env, resolution, i) ==
    IF w.thrown # NoThrow \/ i >= w.rc.numSwapChainBuffers_ THEN w
    ELSE LET w1 == Call(w, Ev("VKColorBuffer::Create", "colorBuffers_", i))
         IN  IF env.fail = "VKColorBuffer::Create"
             THEN Throw(StoreAt(w1, env, "colorBuffers_", i, NullBuffer),
                        "failed to create Vulkan image")
             ELSE CreateColorBuffersFrom(
                      StoreAt(w1, env, "colorBuffers_", i, [id |-> NewId(w), extent |-> resolution]),
                      env, resolution, i + 1)

\* VKRenderContext::CreateColorBuffers
CreateColorBuffers(w, env, resolution) == CreateColorBuffersFrom(w, env, resolution, 0)

\* the loop of VKRenderContext::ReleaseRenderBuffers, from index i on
RECURSIVE ReleaseColorBuffersFrom(_, _, _)
ReleaseColorBuffersFrom(w, env, i) ==
    IF i >= w.rc.numSwapChainBuffers_ THEN w
    ELSE ReleaseColorBuffersFrom(
             StoreAt(Call(w, Ev("VKColorBuffer::Release", "colorBuffers_", i)),
                     env, "colorBuffers_", i, NullBuffer),
             env, i + 1)

\* VKRenderContext::ReleaseRenderBuffers
ReleaseRenderBuffers(w, env) ==
    IF w.thrown # NoThrow THEN w
    ELSE LET w1 == [Call(w, Ev("VKDepthStencilBuffer::Release", "depthStencilBuffer_", 0))
                       EXCEPT !.rc.depthStencilBuffer_ = NullBuffer]
         IN  IF HasMultiSampling(w.rc) THEN ReleaseColorBuffersFrom(w1, env, 0) ELSE w1

\* VKRenderContext::CreateResolutionDependentResources
CreateResolutionDependentResources(w, env, resolution) ==
    LET w1 == CreateSwapChain(w, env, resolution, w.rc.vsyncInterval_)
        w2 == IF HasMultiSampling(w1.rc) THEN CreateColorBuffers(w1, env, resolution) ELSE w1
        w3 == IF w2.rc.depthStencilFormat_ # "VK_FORMAT_UNDEFINED"
              THEN CreateDepthStencilBuffer(w2, env, resolution) ELSE w2
    IN  CreateSwapChainFramebuffers(w3, env)


\* a variant of ResizeBuffersPrimary without the test of the extent
ResizeBuffersPrimary_Always(w, env, resolution) ==
    LET w1 == Call(w, Ev("vkQueueWaitIdle", "graphicsQueue_", 0))
        w2 == CreatePresentSemaphores(w1, env)
        w3 == CreateGpuSurface(w2, env)
        w4 == ReleaseRenderBuffers(w3, env)
    IN  CreateResolutionDependentResources(w4, env, resolution)

\* VKRenderContext::ResizeBuffersPrimary (returns true unless it throws)
ResizeBuffersPrimary(w, env, resolution) ==
    IF w.rc.swapChainExtent_[1] # resolution[1] \/ w.rc.swapChainExtent_[2] # resolution[2]
    THEN LET w1 == Call(w, Ev("vkQueueWaitIdle", "graphicsQueue_", 0))
             w2 == CreatePresentSemaphores(w1, env)
             w3 == CreateGpuSurface(w2, env)
             w4 == ReleaseRenderBuffers(w3, env)
         IN  CreateResolutionDependentResources(w4, env, resolution)
    ELSE w

\* VKRenderContext::SetVsyncInterval (returns true unless it throws);
\* resolution is what GetResolution() of the base class returns
SetVsyncInterval(w, env, resolution, vsyncInterval) ==
    IF w.rc.vsyncInterval_ # vsyncInterval
    THEN LET w1 == CreateSwapChain(w, env, resolution, vsyncInterval)
             w2 == CreateSwapChainFramebuffers(w1, env)
         IN  IF w2.thrown # NoThrow THEN w2
             ELSE [w2 EXCEPT !.rc.vsyncInterval_ = vsyncInterval]
    ELSE w

\* VKRenderContext::Present
Present(w, env) ==
    LET w1 == Call(w, [ fn |-> "vkQueueSubmit", obj |-> "graphicsQueue_", idx |-> 0,
                        wait |-> w.rc.imageAvailableSemaphore_.id,
                        signal |-> w.rc.renderFinishedSemaphore_.id,
                        commandBufferCount |-> 0 ])
    IN  IF env.fail = "vkQueueSubmit"
        THEN Throw(w1, "failed to submit semaphore to Vulkan graphics queue")
        ELSE LET w2 == [w1 EXCEPT !.rc.imageAvailableSemaphore_.signals = Max(0, @ - 1),
                                  !.rc.renderFinishedSemaphore_.signals = Min(2, @ + 1)]
                 w3 == Call(w2, [ fn |-> "vkQueuePresentKHR", obj |-> "presentQueue_",
                                  idx |-> w.rc.presentImageIndex_,
                                  wait |-> w.rc.renderFinishedSemaphore_.id,
                                  swapChain |-> w.rc.swapChain_.id ])
             IN  IF env.fail = "vkQueuePresentKHR"
                 THEN Throw(w3, "failed to present Vulkan graphics queue")
                 ELSE AcquireNextPresentImage(
                          [w3 EXCEPT !.rc.renderFinishedSemaphore_.signals = Max(0, @ - 1)], env)

(***************************************************************************)
(* VKRenderContext::VKRenderContext                                        *)
(***************************************************************************)
\* the members before the constructor's body runs
UnconstructedContext(samples, depthStencilFormat) ==
    [ surface_                 |-> 0,
      surfaceCaps              |-> [ minImageCount |-> 0, maxImageCount |-> 0,
                                     minImageExtent |-> NullExtent,
                                     maxImageExtent |-> NullExtent ],
      presentModes             |-> SurfacePresentModes,
      swapChain_               |-> NullSwapChain,
      swapChainRenderPass_     |-> 0,
      swapChainSamples_        |-> samples,
      swapChainExtent_         |-> NullExtent,
      swapChainImages_         |-> [i \in Slots |-> 0],
      swapChainImageViews_     |-> [i \in Slots |-> NullImageView],
      swapChainFramebuffers_   |-> [i \in Slots |-> NullFramebuffer],
      numSwapChainBuffers_     |-> 1,
      presentImageIndex_       |-> 0,
      vsyncInterval_           |-> 0,
      secondaryRenderPass_     |-> 0,
      depthStencilFormat_      |-> depthStencilFormat,
      depthStencilBuffer_      |-> NullBuffer,
      colorBuffers_            |-> [i \in Slots |-> NullBuffer],
      imageAvailableSemaphore_ |-> NullSemaphore,
      renderFinishedSemaphore_ |-> NullSemaphore,
      overrun                  |-> FALSE ]

\* the constructor's body; desc = [swapBuffers, resolution]
Construct(w, env, desc) ==
    LET w1 == CreatePresentSemaphores(w, env)
        w2 == CreateGpuSurface(w1, env)
        w3 == [w2 EXCEPT !.rc.numSwapChainBuffers_ =
                             PickSwapChainSize(w2.rc.surfaceCaps, desc.swapBuffers),
                         !.rc.swapChainRenderPass_ = NewId(w),
                         !.rc.secondaryRenderPass_ = NewId(w)]
    IN  CreateResolutionDependentResources(w3, env, desc.resolution)

\* an operation starts on the current fields, with no call issued yet
Start(r) == [rc |-> Age(r), calls |-> << >>, thrown |-> NoThrow]

\* the fields an operation leaves: the handles keep their age when the
\* operation changed no field
Finish(r, w) == IF w.rc = Age(r) THEN r ELSE w.rc

\* the native the environment made fail, if the operation got to call it
FailedCall(w, env) ==
    IF \E k \in 1 .. Len(w.calls) : w.calls[k].fn = env.fail THEN env.fail ELSE NoFail

\* the record of a finished operation: its arguments, the natives it called, the
\* one that failed, the exception it threw, and what it returned
RcCall(op, resolution, vsyncInterval, w, env) ==
    [ op |-> op, resolution |-> resolution, vsyncInterval |-> vsyncInterval,
      calls |-> w.calls, failed |-> FailedCall(w, env), thrown |-> w.thrown,
      returned |-> (w.thrown = NoThrow), ret |-> (w.thrown = NoThrow) ]

(***************************************************************************)
(* SpecRC: a constructed VKRenderContext, then any sequence of             *)
(* ResizeBuffersPrimary, SetVsyncInterval and Present.                     *)
(***************************************************************************)
\* the image counts the surfaces of the model report
RCImageCounts ==
    { [minImageCount |-> 2, maxImageCount |-> MaxImages] }

\* what becomes of a store past the end of an array, when n images make one happen
StrayOutcomes(n) ==
    IF n > g_maxNumColorBuffers
    THEN { [stray |-> "lost", garbage |-> 0], [stray |-> "clobber", garbage |-> 0],
           [stray |-> "clobber", garbage |-> MaxImages + 1] }
    ELSE { [stray |-> "lost", garbage |-> 0] }

\* what the natives do during an operation that creates a swap-chain for a
\* context with numSwapChainBuffers_ = minImages: the driver creates exactly
\* that many images or more, and the first acquire fails or yields the last image
SwapChainEnvs(caps, minImages) ==
    UNION { { [fail |-> NoFail, caps |-> c, numImages |-> n, acquire |-> a,
               stray |-> u.stray, garbage |-> u.garbage] :
                c \in caps, a \in {AcquireFails, n - 1}, u \in StrayOutcomes(n) } :
            n \in {minImages, Min(MaxImages, minImages + 1)} }

\* the native calls of a recreation that fail in the model
RecreateFailures == { "vkCreateSwapchainKHR", "VKDepthStencilBuffer::Create" }

\* what the natives do during the constructor, which completes
ConstructCaps ==
    { [ minImageCount |-> c.minImageCount, maxImageCount |-> c.maxImageCount,
        minImageExtent |-> e.minImageExtent, maxImageExtent |-> e.maxImageExtent ] :
        c \in RCImageCounts, e \in ExtentCaps }

ConstructEnvs(swapBuffers) ==
    UNION { SwapChainEnvs({c}, PickSwapChainSize(c, swapBuffers)) : c \in ConstructCaps }

\* what the natives do during a resize of context r: everything succeeds, or
\* one native fails
ResizeEnvs(r) ==
    SwapChainEnvs({ [r.surfaceCaps EXCEPT !.minImageExtent = e.minImageExtent,
                                          !.maxImageExtent = e.maxImageExtent] :
                    e \in ExtentCaps }, r.numSwapChainBuffers_)
    \cup
    { [fail |-> f, caps |-> r.surfaceCaps, numImages |-> r.numSwapChainBuffers_,
       acquire |-> 0, stray |-> "lost", garbage |-> 0] : f \in RecreateFailures }

\* SetVsyncInterval does not query the surface again
VsyncEnvs(r) == { env \in ResizeEnvs(r) : env.caps = r.surfaceCaps }

\* what the natives do during Present: the acquire fails or yields the image
\* after the one presented
PresentEnvs(r) ==
    { [fail |-> f, caps |-> r.surfaceCaps, numImages |-> r.numSwapChainBuffers_,
       acquire |-> a, stray |-> "lost", garbage |-> 0] :
        f \in {NoFail, "vkQueueSubmit", "vkQueuePresentKHR"},
        a \in {AcquireFails, (r.presentImageIndex_ + 1) % r.swapChain_.numImages} }

\* the contexts of the model: single-sampled without a depth-stencil buffer,
\* or multi-sampled with one
ContextConfigs == { <<1, "VK_FORMAT_UNDEFINED">>, <<4, "VK_FORMAT_D24_UNORM_S8_UINT">> }

\* the contexts the constructor can leave, with the record of its run
Constructed(cfgs, swapBufferCounts, resolutions) ==
    UNION { { LET w == Construct(Start(UnconstructedContext(a[1][1], a[1][2])), env,
                                 [swapBuffers |-> a[2], resolution |-> a[3]])
              IN  <<w.rc, RcCall("VKRenderContext", NullExtent, 0, w, env)>> :
                env \in ConstructEnvs(a[2]) } :
            a \in cfgs \X swapBufferCounts \X resolutions }

InitRC ==
    /\ \E c \in Constructed(ContextConfigs, 1 .. MaxImages, Extents) :
          rc = c[1] /\ rcCall = c[2]
    /\ OthersIdle({"rc"})

\* The model follows a context until an operation throws or stores past the end
\* of an array.
Usable == rcCall.returned /\ ~rc.overrun

DoResizeBuffersPrimary ==
    /\ Usable
    /\ \E resolution \in Extents, env \in ResizeEnvs(rc) :
          LET w == ResizeBuffersPrimary(Start(rc), env, resolution)
          IN  /\ rc' = Finish(rc, w)
              /\ rcCall' = RcCall("ResizeBuffersPrimary", resolution, 0, w, env)
    /\ UNCHANGED <<fnArgs, fnRet, imgLayout, cmdBuffer, execPos, devCall, mem, memCall, fl, backendVars>>

DoSetVsyncInterval ==
    /\ Usable
    /\ \E vsyncInterval \in 0 .. MaxVsync, resolution \in Extents, env \in VsyncEnvs(rc) :
          LET w == SetVsyncInterval(Start(rc), env, resolution, vsyncInterval)
          IN  /\ rc' = Finish(rc, w)
              /\ rcCall' = RcCall("SetVsyncInterval", NullExtent, vsyncInterval, w, env)
    /\ UNCHANGED <<fnArgs, fnRet, imgLayout, cmdBuffer, execPos, devCall, mem, memCall, fl, backendVars>>

DoPresent ==
    /\ Usable
    /\ \E env \in PresentEnvs(rc) :
          LET w == Present(Start(rc), env)
          IN  /\ rc' = Finish(rc, w)
              /\ rcCall' = RcCall("Present", NullExtent, 0, w, env)
    /\ UNCHANGED <<fnArgs, fnRet, imgLayout, cmdBuffer, execPos, devCall, mem, memCall, fl, backendVars>>

NextRC ==
    \/ DoResizeBuffersPrimary
    \/ DoSetVsyncInterval
    \/ DoPresent

SpecRC == InitRC /\ [][NextRC]_vars


(***************************************************************************)
(* Claims on VKRenderContext                                               *)
(***************************************************************************)
\* C3: in every reachable state of the context numSwapChainBuffers_ is at most
\* g_maxNumColorBuffers, and no loop has stored past the end of an array.
C3_BufferSetBounded ==
    /\ rc.numSwapChainBuffers_ <= g_maxNumColorBuffers
    /\ ~rc.overrun

\* C4: ResizeBuffersPrimary called with the extent the swap-chain has makes no
\* native call (no idle wait, nothing destroyed, nothing created), leaves every
\* field as it was and returns true.
C4_ResizeNoOp ==
    [][ (rcCall'.op = "ResizeBuffersPrimary" /\ rcCall'.resolution = rc.swapChainExtent_)
            => /\ rcCall'.calls = << >>
               /\ rc' = rc
               /\ rcCall'.returned /\ rcCall'.ret ]_vars

\* a resize with the current extent has returned
C4_Witness ==
    /\ rcCall.op = "ResizeBuffersPrimary"
    /\ rcCall.resolution = rc.swapChainExtent_
    /\ rcCall.calls = << >>
    /\ rcCall.ret

\* C7: a Present that returns has issued exactly a submit of no command buffer
\* that waits on the image-available and signals the render-finished semaphore,
\* then a present of image presentImageIndex_ that waits on the render-finished
\* semaphore, then an acquire; and presentImageIndex_ is then the index that
\* acquire obtained, not the index presented.
C7_PresentationCycle ==
    [][ (rcCall'.op = "Present" /\ rcCall'.returned)
            => LET c == rcCall'.calls
               IN  /\ Len(c) = 3
                   /\ c[1].fn = "vkQueueSubmit"
                   /\ c[1].commandBufferCount = 0
                   /\ c[1].wait = AgeId(rc.imageAvailableSemaphore_.id)
                   /\ c[1].signal = AgeId(rc.renderFinishedSemaphore_.id)
                   /\ c[2].fn = "vkQueuePresentKHR"
                   /\ c[2].wait = AgeId(rc.renderFinishedSemaphore_.id)
                   /\ c[2].idx = rc.presentImageIndex_
                   /\ c[3].fn = "vkAcquireNextImageKHR"
                   /\ c[3].acquired # AcquireFails
                   /\ rc'.presentImageIndex_ = c[3].acquired
                   /\ rc'.presentImageIndex_ # c[2].idx ]_vars

\* the position of the first call of the list that destroys or releases an
\* object (past the end when there is none)
RECURSIVE FirstDestroy(_, _)
FirstDestroy(calls, k) ==
    IF k > Len(calls) THEN k
    ELSE IF calls[k].fn \in { "vkDestroySemaphore", "vkDestroySwapchainKHR",
                              "vkDestroySurfaceKHR", "vkDestroyImageView",
                              "vkDestroyFramebuffer", "VKDepthStencilBuffer::Release",
                              "VKColorBuffer::Release" }
         THEN k
         ELSE FirstDestroy(calls, k + 1)

\* C8: a ResizeBuffersPrimary that recreates and returns has waited for the
\* graphics queue before its first destruction, and leaves a new surface, a new
\* swap-chain, and for every image of that swap-chain a new image, view and
\* framebuffer (and multisample color buffer, when multisampling) and a new
\* depth-stencil buffer (when there is one), all of the extent of the swap-chain.
C8_ResizeSequence ==
    (rcCall.op = "ResizeBuffersPrimary" /\ rcCall.calls # << >> /\ rcCall.returned)
        => /\ rcCall.calls[1].fn = "vkQueueWaitIdle"
           /\ FirstDestroy(rcCall.calls, 1) > 1
           /\ IsNew(rc.surface_)
           /\ IsNew(rc.swapChain_.id)
           /\ rc.swapChain_.extent = rc.swapChainExtent_
           /\ \A i \in 0 .. (rc.swapChain_.numImages - 1) :
                 /\ i \in Slots
                 /\ IsNew(rc.swapChainImages_[i])
                 /\ IsNew(rc.swapChainImageViews_[i].id)
                 /\ IsNew(rc.swapChainFramebuffers_[i].id)
                 /\ rc.swapChainFramebuffers_[i].extent = rc.swapChainExtent_
                 /\ HasMultiSampling(rc)
                        => /\ IsNew(rc.colorBuffers_[i].id)
                           /\ rc.colorBuffers_[i].extent = rc.swapChainExtent_
           /\ HasDepthStencilBuffer(rc)
                  => /\ IsNew(rc.depthStencilBuffer_.id)
                     /\ rc.depthStencilBuffer_.extent = rc.swapChainExtent_

\* C9: a SetVsyncInterval with the stored interval changes nothing and returns
\* true; one with another interval that returns has stored the interval and
\* left a new swap-chain with a new view and framebuffer for each of its
\* images, and the depth-stencil buffer, the color buffers, the surface, the
\* semaphores and the render passes as they were.
C9_VsyncChangeFrame ==
    [][ (rcCall'.op = "SetVsyncInterval" /\ rcCall'.returned)
            => IF rcCall'.vsyncInterval = rc.vsyncInterval_
               THEN rc' = rc /\ rcCall'.calls = << >> /\ rcCall'.ret
               ELSE /\ rcCall'.ret
                    /\ rc'.vsyncInterval_ = rcCall'.vsyncInterval
                    /\ IsNew(rc'.swapChain_.id)
                    /\ \A i \in 0 .. (rc'.swapChain_.numImages - 1) :
                          /\ i \in Slots
                          /\ IsNew(rc'.swapChainImageViews_[i].id)
                          /\ IsNew(rc'.swapChainFramebuffers_[i].id)
                    /\ rc'.depthStencilBuffer_ = Age(rc).depthStencilBuffer_
                    /\ rc'.colorBuffers_ = Age(rc).colorBuffers_
                    /\ rc'.surface_ = Age(rc).surface_
                    /\ rc'.imageAvailableSemaphore_ = Age(rc).imageAvailableSemaphore_
                    /\ rc'.renderFinishedSemaphore_ = Age(rc).renderFinishedSemaphore_
                    /\ rc'.swapChainRenderPass_ = Age(rc).swapChainRenderPass_
                    /\ rc'.secondaryRenderPass_ = Age(rc).secondaryRenderPass_ ]_vars

(***************************************************************************)
(* VKDevice::AllocCommandBuffer and VKDevice::FlushCommandBuffer           *)
(*                                                                         *)
(* fl holds the command buffer a caller of the device works with:          *)
(*   pc        where the caller is: "idle" (no buffer), "recording",       *)
(*             "fence.Wait" (inside FlushCommandBuffer), "done"            *)
(*   cmdBuffer the state of the buffer (none, recording, executable,       *)
(*             pending, completed, freed)                                  *)
(*   fence     the fence of the flush (none, unsignaled, signaled)         *)
(*   release   the argument of FlushCommandBuffer                          *)
(*   calls     the natives the operation has called, failed the one that   *)
(*             failed, thrown the message of the exception it threw        *)
(*   recorded  the commands recorded into the buffer                       *)
(*   pool      the number of command buffers allocated from commandPool_   *)
(*             and not freed                                               *)
(***************************************************************************)
\* largest number of command buffers the pool holds
MaxPool == 2

NoCommandBuffer ==
    [ pc |-> "idle", op |-> None, cmdBuffer |-> "none", fence |-> "none", release |-> FALSE,
      calls |-> << >>, failed |-> NoFail, thrown |-> NoThrow, returned |-> FALSE,
      recorded |-> << >>, pool |-> 0 ]

\* VKDevice::AllocCommandBuffer(begin = true)
AllocCommandBuffer ==
    /\ fl.pc \in {"idle", "done"}
    /\ fl.pool < MaxPool
    /\ \E fail \in {NoFail, "vkAllocateCommandBuffers", "vkBeginCommandBuffer"} :
          fl' = IF fail = "vkAllocateCommandBuffers"
                THEN [NoCommandBuffer EXCEPT
                         !.pc = "done", !.op = "AllocCommandBuffer", !.pool = fl.pool,
                         !.calls = <<"vkAllocateCommandBuffers">>, !.failed = fail,
                         !.thrown = "failed to allocate Vulkan command buffer"]
                ELSE IF fail = "vkBeginCommandBuffer"
                THEN [NoCommandBuffer EXCEPT
                         !.pc = "done", !.op = "AllocCommandBuffer", !.cmdBuffer = "initial",
                         !.pool = fl.pool + 1,
                         !.calls = <<"vkAllocateCommandBuffers", "vkBeginCommandBuffer">>,
                         !.failed = fail,
                         !.thrown = "failed to begin recording Vulkan command buffer"]
                ELSE [NoCommandBuffer EXCEPT
                         !.pc = "recording", !.op = "AllocCommandBuffer",
                         !.cmdBuffer = "recording", !.pool = fl.pool + 1,
                         !.calls = <<"vkAllocateCommandBuffers", "vkBeginCommandBuffer">>,
                         !.returned = TRUE]
    /\ UNCHANGED <<fnArgs, fnRet, imgLayout, cmdBuffer, execPos, devCall, mem, memCall, rc, rcCall, backendVars>>

\* VKDevice::FlushCommandBuffer up to fence.Wait: the recording is ended, a fence
\* is made, and the buffer is submitted with it; the result of vkQueueSubmit is
\* dropped
FlushCommandBuffer ==
    /\ fl.pc = "recording"
    /\ \E release \in BOOLEAN, fail \in {NoFail, "vkEndCommandBuffer", "vkQueueSubmit"} :
          fl' = IF fail = "vkEndCommandBuffer"
                THEN [fl EXCEPT !.pc = "done", !.op = "FlushCommandBuffer",
                                !.release = release, !.cmdBuffer = "invalid",
                                !.calls = <<"vkEndCommandBuffer">>, !.failed = fail,
                                !.thrown = "failed to end recording Vulkan command buffer",
                                !.returned = FALSE]
                ELSE [fl EXCEPT !.pc = "fence.Wait", !.op = "FlushCommandBuffer",
                                !.release = release,
                                !.cmdBuffer = IF fail = "vkQueueSubmit"
                                              THEN "executable" ELSE "pending",
                                !.fence = "unsignaled",
                                !.calls = <<"vkEndCommandBuffer", "vkCreateFence", "vkQueueSubmit",
                                            "vkWaitForFences">>,
                                !.failed = fail,
                                !.returned = FALSE]
    /\ UNCHANGED <<fnArgs, fnRet, imgLayout, cmdBuffer, execPos, devCall, mem, memCall, rc, rcCall, backendVars>>

\* the queue completes the work it accepted and signals its fence
QueueCompletes ==
    /\ fl.pc = "fence.Wait"
    /\ fl.cmdBuffer = "pending"
    /\ fl' = [fl EXCEPT !.cmdBuffer = "completed", !.fence = "signaled"]
    /\ UNCHANGED <<fnArgs, fnRet, imgLayout, cmdBuffer, execPos, devCall, mem, memCall, rc, rcCall, backendVars>>

\* a variant of FlushCommandBufferReturn that goes on without the fence being signaled
FlushCommandBufferReturn_NoWait ==
    /\ fl.pc = "fence.Wait"
    /\ fl' = [fl EXCEPT !.pc = "done",
                        !.fence = "none",
                        !.cmdBuffer = IF fl.release THEN "freed" ELSE @,
                        !.pool = IF fl.release THEN @ - 1 ELSE @,
                        !.calls = @ \o (IF fl.release
                                        THEN <<"vkDestroyFence", "vkFreeCommandBuffers">>
                                        ELSE <<"vkDestroyFence">>),
                        !.returned = TRUE]
    /\ UNCHANGED <<fnArgs, fnRet, imgLayout, cmdBuffer, execPos, devCall, mem, memCall, rc, rcCall, backendVars>>

\* VKDevice::FlushCommandBuffer from the return of fence.Wait on: the fence is
\* destroyed and the buffer freed when release is set
FlushCommandBufferReturn ==
    /\ fl.pc = "fence.Wait"
    /\ fl.fence = "signaled"
    /\ fl' = [fl EXCEPT !.pc = "done",
                        !.fence = "none",
                        !.cmdBuffer = IF fl.release THEN "freed" ELSE @,
                        !.pool = IF fl.release THEN @ - 1 ELSE @,
                        !.calls = @ \o (IF fl.release
                                        THEN <<"vkDestroyFence", "vkFreeCommandBuffers">>
                                        ELSE <<"vkDestroyFence">>),
                        !.returned = TRUE]
    /\ UNCHANGED <<fnArgs, fnRet, imgLayout, cmdBuffer, execPos, devCall, mem, memCall, rc, rcCall, backendVars>>

(***************************************************************************)
(* SpecSubmit: the operations that submit to a queue, FlushCommandBuffer   *)
(* of the device and Present of a context.                                 *)
(***************************************************************************)
InitSubmit ==
    /\ \E c \in Constructed({<<1, "VK_FORMAT_UNDEFINED">>}, {2, 3}, {<<1, 1>>}) :
          rc = c[1] /\ rcCall = c[2]
    /\ fl = NoCommandBuffer
    /\ OthersIdle({"rc", "fl"})

NextSubmit ==
    \/ AllocCommandBuffer
    \/ FlushCommandBuffer
    \/ QueueCompletes
    \/ FlushCommandBufferReturn
    \/ DoPresent

SpecSubmit == InitSubmit /\ [][NextSubmit]_vars

\* C10: when vkQueueSubmit or vkQueuePresentKHR has failed inside
\* FlushCommandBuffer or Present, the operation has thrown, the failed native is
\* the last one it called, and it called it once.
C10_SubmissionFailuresPropagated ==
    /\ rcCall.failed \in {"vkQueueSubmit", "vkQueuePresentKHR"}
           => /\ rcCall.thrown # NoThrow
              /\ rcCall.calls[Len(rcCall.calls)].fn = rcCall.failed
              /\ Cardinality({k \in 1 .. Len(rcCall.calls) :
                                  rcCall.calls[k].fn = rcCall.failed}) = 1
    /\ fl.failed = "vkQueueSubmit"
           => /\ fl.thrown # NoThrow
              /\ fl.calls[Len(fl.calls)] = fl.failed
              /\ Cardinality({k \in 1 .. Len(fl.calls) : fl.calls[k] = fl.failed}) = 1


(***************************************************************************)
(* D3D12ComputePSO (Direct3D12/RenderState/D3D12ComputePSO.cpp)            *)
(*                                                                         *)
(* Pointers are numbers, 0 being nullptr.  A constructor is an operator    *)
(* over w = [calls, thrown, native]: the calls it has made so far, the     *)
(* message of the exception that ended it (NoThrow when none) and the      *)
(* native pipeline-state object the PSO holds (NullPSO when none).         *)
(***************************************************************************)
\* number of D3D12ComputePSO objects the application constructs
MaxPSO == 3

nullptr == 0

\* desc.computeShader: no shader, or one of two D3D12Shader objects
ComputeShaders == {nullptr, 1, 2}

\* pipelineCache: none, or a D3D12PipelineCache
PipelineCaches == {nullptr, 1}

\* outcome of ID3D12Device::CreateComputePipelineState
DeviceResults == {"S_OK", "E_OUTOFMEMORY"}

NullPSO == [CS |-> nullptr, CachedPSO |-> nullptr, created |-> FALSE]

NoComputePSO ==
    [state |-> "unconstructed", computeShader |-> nullptr, pipelineCache |-> nullptr,
     calls |-> << >>, thrown |-> NoThrow, native |-> NullPSO]

\* D3D12Shader::GetByteCode: the byte code belongs to the shader
GetByteCode(computeShaderD3D) == computeShaderD3D

\* D3D12PipelineCache::GetCachedPSO: the blob belongs to the cache
GetCachedPSO(pipelineCache) == pipelineCache

\* D3D12Device::CreateDXComputePipelineState, DXThrowIfCreateFailed included
CreateDXComputePipelineState(w, device, stateDesc) ==
    LET called == [w EXCEPT !.calls = Append(@, "CreateDXComputePipelineState")]
    IN  IF device = "S_OK"
        THEN [called EXCEPT !.native =
                 [CS |-> stateDesc.CS, CachedPSO |-> stateDesc.CachedPSO, created |-> TRUE]]
        ELSE [called EXCEPT !.thrown = "failed to create instance of <ID3D12PipelineState>"]

\* D3D12ComputePSO::CreateNativePSO
CreateNativePSO(w, device, csBytecode, pipelineCache) ==
    LET called    == [w EXCEPT !.calls = Append(@, "CreateNativePSO")]
        stateDesc == [CS        |-> csBytecode,
                      CachedPSO |-> IF pipelineCache # nullptr
                                    THEN GetCachedPSO(pipelineCache) ELSE nullptr]
    IN  CreateDXComputePipelineState(called, device, stateDesc)

\* the constructor with the test of the compute shader left out
D3D12ComputePSO_NoShaderTest(device, computeShader, pipelineCache) ==
    LET w0 == [calls |-> << "D3D12PipelineState" >>, thrown |-> NoThrow, native |-> NullPSO]
        w1 == CreateNativePSO(w0, device, GetByteCode(computeShader), pipelineCache)
    IN  [state         |-> IF w1.thrown = NoThrow THEN "constructed" ELSE "failed",
         computeShader |-> computeShader, pipelineCache |-> pipelineCache,
         calls |-> w1.calls, thrown |-> w1.thrown, native |-> w1.native]

\* D3D12ComputePSO::D3D12ComputePSO: the base class is constructed first
D3D12ComputePSO(device, computeShader, pipelineCache) ==
    LET w0 == [calls |-> << "D3D12PipelineState" >>, thrown |-> NoThrow, native |-> NullPSO]
        w1 == IF computeShader = nullptr
              THEN [w0 EXCEPT !.thrown =
                       "cannot create D3D compute pipeline without compute shader"]
              ELSE CreateNativePSO(w0, device, GetByteCode(computeShader), pipelineCache)
    IN  [state         |-> IF w1.thrown = NoThrow THEN "constructed" ELSE "failed",
         computeShader |-> computeShader, pipelineCache |-> pipelineCache,
         calls |-> w1.calls, thrown |-> w1.thrown, native |-> w1.native]

InitPSO ==
    /\ pso = [p \in 1 .. MaxPSO |-> NoComputePSO]
    /\ cmdContext = [pipelineState |-> NullPSO, rootSignatureOf |-> nullptr]
    /\ OthersIdle({"pso"})

\* the application constructs the next compute PSO
ConstructComputePSO ==
    \E p \in 1 .. MaxPSO, device \in DeviceResults,
       computeShader \in ComputeShaders, pipelineCache \in PipelineCaches :
        /\ pso[p].state = "unconstructed"
        /\ \A q \in 1 .. (p - 1) : pso[q].state # "unconstructed"
        /\ pso' = [pso EXCEPT ![p] = D3D12ComputePSO(device, computeShader, pipelineCache)]
        /\ UNCHANGED <<fnArgs, fnRet, imgLayout, cmdBuffer, execPos, devCall, mem, memCall,
                       rc, rcCall, fl, cmdContext, gl, glCall, glScope, glStream>>

\* D3D12ComputePSO::Bind, on an object whose constructor returned
BindComputePSO ==
    \E p \in 1 .. MaxPSO :
        /\ pso[p].state = "constructed"
        /\ cmdContext' = [pipelineState |-> pso[p].native, rootSignatureOf |-> p]
        /\ UNCHANGED <<fnArgs, fnRet, imgLayout, cmdBuffer, execPos, devCall, mem, memCall,
                       rc, rcCall, fl, pso, gl, glCall, glScope, glStream>>

NextPSO == ConstructComputePSO \/ BindComputePSO

SpecPSO == InitPSO /\ [][NextPSO]_vars

(***************************************************************************)
(* C11: a D3D12ComputePSO whose descriptor has no compute shader ends its  *)
(* construction in the failure "cannot create D3D compute pipeline without *)
(* compute shader", and then neither CreateNativePSO nor                   *)
(* CreateDXComputePipelineState was reached and the object holds no native *)
(* pipeline state; nothing the command context binds comes from it.        *)
(***************************************************************************)
C11_NoShaderRejected ==
    \A p \in 1 .. MaxPSO :
        (pso[p].state # "unconstructed" /\ pso[p].computeShader = nullptr) =>
            /\ pso[p].state = "failed"
            /\ pso[p].thrown = "cannot create D3D compute pipeline without compute shader"
            /\ \A k \in 1 .. Len(pso[p].calls) :
                   pso[p].calls[k] \notin {"CreateNativePSO", "CreateDXComputePipelineState"}
            /\ ~pso[p].native.created
            /\ cmdContext.rootSignatureOf # p

\* a PSO without compute shader was rejected after another one was created and bound
C11_Witness ==
    \E p, q \in 1 .. MaxPSO :
        /\ pso[p].state = "failed" /\ pso[p].computeShader = nullptr
        /\ pso[q].state = "constructed" /\ cmdContext.rootSignatureOf = q

(***************************************************************************)
(* GLStateManager (OpenGL/RenderState/GLStateManager.h) and                *)
(* GLProgramPipeline (OpenGL/Shader/GLProgramPipeline.cpp)                 *)
(*                                                                         *)
(* The state manager shadows the binding machine of one GL context.  A     *)
(* binding slot is a (kind, target, index) triple; object names are        *)
(* numbers, 0 being "nothing bound".  An operation is an operator over     *)
(* w = [gl, calls]: the state manager with its context, and the native     *)
(* calls the operation has issued so far.                                  *)
(***************************************************************************)
\* N of "N pushes followed by N pops": the depth a state stack reaches
MaxStackDepth == 2

\* the GL object names of every kind (besides 0)
GLNames == {1, 2}

GLStates == {"Blend", "DepthTest"}
BufferTargets == {"ArrayBuffer", "ElementArrayBuffer"}
FramebufferTargets == {"DrawFramebuffer", "ReadFramebuffer"}
TextureTargets == {"Texture2D"}
TextureLayers == {0, 1}

\* the kinds of objects the state manager binds, and those it can push
BindKinds ==
    {"Buffer", "Texture", "Sampler", "Framebuffer", "Renderbuffer", "VertexArray",
     "ShaderProgram", "ProgramPipeline"}
StackKinds == {"Capability", "Buffer", "Texture", "Framebuffer", "Renderbuffer"}

Slot(kind, target, index) == [kind |-> kind, target |-> target, index |-> index]

SlotsOf(kind) ==
    CASE kind = "Capability"  -> { Slot(kind, state, 0) : state \in GLStates }
      [] kind = "Buffer"      -> { Slot(kind, target, 0) : target \in BufferTargets }
      [] kind = "Framebuffer" -> { Slot(kind, target, 0) : target \in FramebufferTargets }
      [] kind = "Texture"     ->
             { Slot(kind, tl[1], tl[2]) : tl \in TextureTargets \X TextureLayers }
      [] kind = "Sampler"     -> { Slot(kind, "", layer) : layer \in TextureLayers }
      [] OTHER                -> { Slot(kind, "", 0) }

BindSlots == UNION { SlotsOf(kind) : kind \in BindKinds }

\* GLContextState: everything unbound, every capability disabled, unit 0 active
InitialContextState ==
    [capabilities  |-> [state \in GLStates |-> FALSE],
     bound         |-> [slot \in BindSlots |-> 0],
     activeTexture |-> 0]

\* the value the cache holds for a slot
Cached(contextState, slot) ==
    IF slot.kind = "Capability" THEN contextState.capabilities[slot.target]
    ELSE contextState.bound[slot]

\* a native call, and its effect on the GL context; glBindTexture acts on the
\* texture unit that is active in the context, and deleting an object unbinds
\* it (a program in use stays in use)
GLCallOn(w, fn, slot, value) ==
    LET native == w.gl.native
        unit   == [slot EXCEPT !.index = native.activeTexture]
        after  ==
            CASE fn = "glActiveTexture" -> [native EXCEPT !.activeTexture = value]
              [] fn \in {"glEnable", "glDisable"} ->
                     [native EXCEPT !.capabilities[slot.target] = value]
              [] fn = "glBind" /\ slot.kind = "Texture" ->
                     [native EXCEPT !.bound[unit] = value]
              [] fn = "glBind" -> [native EXCEPT !.bound[slot] = value]
              [] fn = "glDelete" /\ slot.kind # "ShaderProgram" ->
                     [native EXCEPT !.bound =
                         [s \in BindSlots |->
                             IF s.kind = slot.kind /\ @[s] = value THEN 0 ELSE @[s]]]
              [] OTHER -> native
    IN  [gl    |-> [w.gl EXCEPT !.native = after],
         calls |-> Append(w.calls, [fn |-> fn, slot |-> slot])]

(***************************************************************************)
(* Boolean states                                                          *)
(***************************************************************************)
\* Set that toggles the capability without recording it
Set_CacheNotUpdated(w, state, value) ==
    IF w.gl.contextState.capabilities[state] # value
    THEN GLCallOn(w, IF value THEN "glEnable" ELSE "glDisable",
                  Slot("Capability", state, 0), value)
    ELSE w

Set(w, state, value) ==
    IF w.gl.contextState.capabilities[state] # value
    THEN LET toggled == GLCallOn(w, IF value THEN "glEnable" ELSE "glDisable",
                                 Slot("Capability", state, 0), value)
         IN  [toggled EXCEPT !.gl.contextState.capabilities[state] = value]
    ELSE w

Enable(w, state) == Set(w, state, TRUE)

Disable(w, state) == Set(w, state, FALSE)

(***************************************************************************)
(* Bindings                                                                *)
(***************************************************************************)
ActiveTexture(w, layer) ==
    IF w.gl.contextState.activeTexture # layer
    THEN LET switched == GLCallOn(w, "glActiveTexture", Slot("Texture", "", layer), layer)
         IN  [switched EXCEPT !.gl.contextState.activeTexture = layer]
    ELSE w

\* BindBuffer, BindFramebuffer, BindRenderbuffer, BindVertexArray, BindSampler,
\* BindShaderProgram, BindProgramPipeline; BindTexture on the active layer
BindX(w, slot, handle) ==
    IF w.gl.contextState.bound[slot] # handle
    THEN LET bound == GLCallOn(w, "glBind", slot, handle)
         IN  [bound EXCEPT !.gl.contextState.bound[slot] = handle]
    ELSE w

BindTexture(w, target, texture) ==
    BindX(w, Slot("Texture", target, w.gl.contextState.activeTexture), texture)

(***************************************************************************)
(* State stacks                                                            *)
(***************************************************************************)
\* PushState, PushBoundBuffer, PushBoundTexture, PushBoundFramebuffer,
\* PushBoundRenderbuffer
PushXState(w, slot) ==
    [w EXCEPT !.gl.stacks[slot.kind] =
        Append(@, [slot |-> slot, value |-> Cached(w.gl.contextState, slot)])]

\* the pop that drops the entry without restoring it
PopXState_NoRestore(w, kind) ==
    LET stack == w.gl.stacks[kind]
    IN  IF stack = << >>
        THEN [w EXCEPT !.gl.fatal = "pop of an empty state stack"]
        ELSE [w EXCEPT !.gl.stacks[kind] = SubSeq(stack, 1, Len(stack) - 1)]

\* the pop that returns silently when its stack is empty
PopXState_EmptyIgnored(w, kind) ==
    LET stack == w.gl.stacks[kind]
        top   == stack[Len(stack)]
        restored ==
            CASE kind = "Capability" -> Set(w, top.slot.target, top.value)
              [] kind = "Texture"    ->
                     BindTexture(ActiveTexture(w, top.slot.index), top.slot.target, top.value)
              [] OTHER               -> BindX(w, top.slot, top.value)
    IN  IF stack = << >> THEN w
        ELSE [restored EXCEPT !.gl.stacks[kind] = SubSeq(stack, 1, Len(stack) - 1)]

\* PopState, PopBoundBuffer, PopBoundTexture, PopBoundFramebuffer,
\* PopBoundRenderbuffer: the entry is restored through Set / Bind
PopXState(w, kind) ==
    LET stack == w.gl.stacks[kind]
        top   == stack[Len(stack)]
        restored ==
            CASE kind = "Capability" -> Set(w, top.slot.target, top.value)
              [] kind = "Texture"    ->
                     BindTexture(ActiveTexture(w, top.slot.index), top.slot.target, top.value)
              [] OTHER               -> BindX(w, top.slot, top.value)
    IN  IF stack = << >>
        THEN [w EXCEPT !.gl.fatal = "pop of an empty state stack"]
        ELSE [restored EXCEPT !.gl.stacks[kind] = SubSeq(stack, 1, Len(stack) - 1)]

\* PopStates: count times PopState, up to the fatal error
RECURSIVE PopStates(_, _)
PopStates(w, count) ==
    IF count = 0 \/ w.gl.fatal # "" THEN w
    ELSE PopStates(PopXState(w, "Capability"), count - 1)

(***************************************************************************)
(* Release notifications                                                   *)
(***************************************************************************)
\* NotifyBufferRelease, NotifyVertexArrayRelease, NotifyFramebufferRelease,
\* DeleteRenderbuffer, DeleteTexture, NotifySamplerRelease,
\* NotifyShaderProgramRelease, NotifyProgramPipelineRelease
NotifyXRelease(w, kind, handle) ==
    LET Forget(value) == IF value = handle THEN 0 ELSE value
        bound  == [slot \in BindSlots |->
                      IF slot.kind = kind THEN Forget(w.gl.contextState.bound[slot])
                      ELSE w.gl.contextState.bound[slot]]
        stacks == [k \in StackKinds |->
                      IF k = kind
                      THEN [i \in 1 .. Len(w.gl.stacks[k]) |->
                               [w.gl.stacks[k][i] EXCEPT !.value = Forget(@)]]
                      ELSE w.gl.stacks[k]]
    IN  [w EXCEPT !.gl.contextState.bound = bound, !.gl.stacks = stacks]

(***************************************************************************)
(* GLProgramPipeline                                                       *)
(***************************************************************************)
\* GLCreateProgramPipeline: with direct state access the new pipeline is not
\* bound; without, it is bound through the state manager to initialize it
GLCreateProgramPipeline(w, dsa, id) ==
    LET slot == Slot("ProgramPipeline", "", 0)
    IN  IF dsa
        THEN GLCallOn(w, "glCreateProgramPipelines", slot, id)
        ELSE BindX(GLCallOn(w, "glGenProgramPipelines", slot, id), slot, id)

\* GLProgramPipeline::UseProgramStages: one glUseProgramStages per shader
\* stage; no binding is involved
UseProgramStages(w, id) ==
    GLCallOn(w, "glUseProgramStages", Slot("ProgramPipeline", "", 0), id)

\* GLProgramPipeline::GLProgramPipeline
GLProgramPipeline(w, dsa, id) ==
    UseProgramStages(GLCreateProgramPipeline(w, dsa, id), id)

\* the destructor without the notification of the state manager
DeleteGLProgramPipeline_NoNotify(w, id) ==
    GLCallOn(w, "glDelete", Slot("ProgramPipeline", "", 0), id)

\* GLProgramPipeline::~GLProgramPipeline
DeleteGLProgramPipeline(w, id) ==
    NotifyXRelease(GLCallOn(w, "glDelete", Slot("ProgramPipeline", "", 0), id),
                   "ProgramPipeline", id)

\* the bind that goes to the context directly
Bind_Uncached(w, id) ==
    GLCallOn(w, "glBind", Slot("ProgramPipeline", "", 0), id)

\* GLProgramPipeline::Bind
Bind(w, id) ==
    BindX(w, Slot("ProgramPipeline", "", 0), id)

(***************************************************************************)
(* The other resources (Resource Model): a name is generated for a new     *)
(* object, and the destructor deletes the object and notifies the state    *)
(* manager.                                                                *)
(***************************************************************************)
CreateX(w, kind, id) ==
    GLCallOn(w, "glGen", Slot(kind, "", 0), id)

ReleaseX(w, kind, id) ==
    NotifyXRelease(GLCallOn(w, "glDelete", Slot(kind, "", 0), id), kind, id)

(***************************************************************************)
(* SpecGL: a client of one rendering context creates, binds, pushes, pops  *)
(* and releases objects of the kinds it uses.                              *)
(***************************************************************************)
\* the kinds a client uses
ClientKinds == { {kind} : kind \in BindKinds \cup StackKinds }

\* an object name is "unused", "fresh" (generated, not bound yet), "reused"
\* (generated again after its release, not bound yet), "used" or "released"
Live(status) == status \in {"fresh", "reused", "used"}

\* a call: the operation, its slot and value, the native calls it issued, the
\* status the object had, whether the cache held the value already, and
\* whether the call before was a bind of the same object to the same slot
NoGLCall ==
    [op |-> "", slot |-> Slot("", "", 0), value |-> 0, native |-> << >>, was |-> "",
     cached |-> FALSE, repeated |-> FALSE]

NoScope == [phase |-> "none", before |-> << >>, pushes |-> 0]

\* a cached value as a number: a flag is 1 or 0
AsNumber(slot, value) ==
    IF slot.kind = "Capability" THEN (IF value THEN 1 ELSE 0) ELSE value

StacksEmpty(g) == \A kind \in StackKinds : g.stacks[kind] = << >>

\* the operation begins: no native call issued yet
StartGL == [gl |-> gl, calls |-> << >>]

\* the push/pop tracking of the client: N pushes from empty stacks, then Set
\* and Bind calls, then N pops; "off" when the calls are in another order
ScopeAfter(class, slot, after) ==
    LET phase == glScope.phase
        off   == [phase |-> "off", before |-> << >>, pushes |-> 0]
        saved == AsNumber(slot, Cached(gl.contextState, slot))
    IN  CASE class = "push" ->
                 IF StacksEmpty(gl)
                 THEN [phase |-> "pushing", before |-> (slot :> saved), pushes |-> 1]
                 ELSE IF phase = "pushing"
                 THEN [glScope EXCEPT !.pushes = @ + 1,
                          !.before = IF slot \in DOMAIN @ THEN @ ELSE @ @@ (slot :> saved)]
                 ELSE off
          [] class = "set" ->
                 IF phase \in {"pushing", "between"} THEN [glScope EXCEPT !.phase = "between"]
                 ELSE IF phase = "popping" THEN off
                 ELSE IF phase = "done" THEN NoScope
                 ELSE glScope
          [] class = "pop" ->
                 IF after.fatal # "" THEN off
                 ELSE IF phase \in {"pushing", "between", "popping"}
                 THEN [glScope EXCEPT
                          !.phase = IF StacksEmpty(after) THEN "done" ELSE "popping"]
                 ELSE IF StacksEmpty(after) THEN NoScope ELSE off
          [] OTHER ->
                 IF phase \in {"none", "done"} THEN NoScope ELSE off

\* the operation returns: its outcome becomes the state
FinishGL(op, slot, value, w, class) ==
    /\ gl' = w.gl
    /\ glCall' = [op |-> op, slot |-> slot, value |-> value,
                  native |-> [k \in 1 .. Len(w.calls) |-> w.calls[k].fn],
                  was |-> IF slot.kind \in BindKinds /\ value \in GLNames
                          THEN gl.names[slot.kind][value] ELSE "",
                  cached |-> /\ op \in {"Set", "Enable", "Disable", "Bind"}
                             /\ AsNumber(slot, Cached(gl.contextState, slot)) = value,
                  repeated |-> /\ op = "Bind"
                               /\ glCall.op \in {"Bind", "CreateAndBind"}
                               /\ glCall.slot = slot /\ glCall.value = value]
    /\ glScope' = ScopeAfter(class, slot, w.gl)
    /\ UNCHANGED <<fnArgs, fnRet, imgLayout, cmdBuffer, execPos, devCall, mem, memCall,
                   rc, rcCall, fl, pso, cmdContext, glStream>>

\* the object has been bound through the state manager
MarkUsed(w, kind, id) ==
    IF id \in GLNames THEN [w EXCEPT !.gl.names[kind][id] = "used"] ELSE w

InitGL ==
    /\ \E kinds \in ClientKinds :
          gl = [kinds        |-> kinds,
                contextState |-> InitialContextState,
                native       |-> InitialContextState,
                stacks       |-> [kind \in StackKinds |-> << >>],
                names        |-> [kind \in BindKinds |-> [id \in GLNames |-> "unused"]],
                fatal        |-> ""]
    /\ glCall = NoGLCall
    /\ glScope = NoScope
    /\ OthersIdle({"gl"})

SetCapability ==
    \E op \in {"Set", "Enable", "Disable"}, state \in GLStates, value \in BOOLEAN :
        /\ gl.fatal = "" /\ "Capability" \in gl.kinds
        /\ op = "Enable" => value
        /\ op = "Disable" => ~value
        /\ FinishGL(op, Slot("Capability", state, 0), IF value THEN 1 ELSE 0,
                    CASE op = "Set"    -> Set(StartGL, state, value)
                      [] op = "Enable" -> Enable(StartGL, state)
                      [] OTHER         -> Disable(StartGL, state),
                    "set")

DoActiveTexture ==
    \E layer \in TextureLayers :
        /\ gl.fatal = "" /\ "Texture" \in gl.kinds
        /\ FinishGL("ActiveTexture", Slot("Texture", "", layer), layer,
                    ActiveTexture(StartGL, layer), "set")

\* BindBuffer, BindTexture, BindSampler, BindFramebuffer, BindRenderbuffer,
\* BindVertexArray, BindShaderProgram with nothing or a live object
BindObject ==
    \E slot \in BindSlots, handle \in {0} \cup GLNames :
        /\ gl.fatal = "" /\ slot.kind \in gl.kinds \ {"ProgramPipeline"}
        /\ handle # 0 => Live(gl.names[slot.kind][handle])
        /\ slot.kind = "Texture" => slot.index = gl.contextState.activeTexture
        /\ FinishGL("Bind", slot, handle,
                    MarkUsed(IF slot.kind = "Texture"
                             THEN BindTexture(StartGL, slot.target, handle)
                             ELSE BindX(StartGL, slot, handle), slot.kind, handle),
                    "set")

PushState ==
    \E kind \in StackKinds \cap gl.kinds :
      \E slot \in SlotsOf(kind) :
        /\ gl.fatal = ""
        /\ Len(gl.stacks[kind]) < MaxStackDepth
        /\ FinishGL("Push", slot, 0, PushXState(StartGL, slot), "push")

PopState ==
    \E kind \in StackKinds \cap gl.kinds :
        /\ gl.fatal = ""
        /\ FinishGL("Pop", Slot(kind, "", 0), 0, PopXState(StartGL, kind), "pop")

DoPopStates ==
    \E count \in 1 .. (MaxStackDepth + 1) :
        /\ gl.fatal = "" /\ "Capability" \in gl.kinds
        /\ FinishGL("PopStates", Slot("Capability", "", 0), count,
                    PopStates(StartGL, count), "pop")

CreateObject ==
    \E kind \in gl.kinds \cap (BindKinds \ {"ProgramPipeline"}), id \in GLNames :
        /\ gl.fatal = "" /\ ~Live(gl.names[kind][id])
        /\ FinishGL("Create", Slot(kind, "", 0), id,
                    [CreateX(StartGL, kind, id) EXCEPT !.gl.names[kind][id] =
                        IF @ = "released" THEN "reused" ELSE "fresh"],
                    "other")

ReleaseObject ==
    \E kind \in gl.kinds \cap (BindKinds \ {"ProgramPipeline"}), id \in GLNames :
        /\ gl.fatal = "" /\ Live(gl.names[kind][id])
        /\ FinishGL("Release", Slot(kind, "", 0), id,
                    [ReleaseX(StartGL, kind, id) EXCEPT !.gl.names[kind][id] = "released"],
                    "other")

ConstructGLProgramPipeline ==
    \E dsa \in BOOLEAN, id \in GLNames :
        /\ gl.fatal = "" /\ "ProgramPipeline" \in gl.kinds
        /\ ~Live(gl.names["ProgramPipeline"][id])
        /\ LET w == GLProgramPipeline(StartGL, dsa, id)
           IN  FinishGL(IF dsa THEN "Create" ELSE "CreateAndBind",
                        Slot("ProgramPipeline", "", 0), id,
                        [w EXCEPT !.gl.names["ProgramPipeline"][id] =
                            IF ~dsa THEN "used"
                            ELSE IF @ = "released" THEN "reused" ELSE "fresh"],
                        "other")

BindGLProgramPipeline ==
    \E id \in GLNames :
        /\ gl.fatal = "" /\ "ProgramPipeline" \in gl.kinds
        /\ Live(gl.names["ProgramPipeline"][id])
        /\ FinishGL("Bind", Slot("ProgramPipeline", "", 0), id,
                    MarkUsed(Bind(StartGL, id), "ProgramPipeline", id), "set")

DestroyGLProgramPipeline ==
    \E id \in GLNames :
        /\ gl.fatal = "" /\ "ProgramPipeline" \in gl.kinds
        /\ Live(gl.names["ProgramPipeline"][id])
        /\ FinishGL("Release", Slot("ProgramPipeline", "", 0), id,
                    [DeleteGLProgramPipeline(StartGL, id) EXCEPT
                        !.gl.names["ProgramPipeline"][id] = "released"],
                    "other")

NextGL ==
    \/ SetCapability
    \/ DoActiveTexture
    \/ BindObject
    \/ PushState
    \/ PopState
    \/ DoPopStates
    \/ CreateObject
    \/ ReleaseObject
    \/ ConstructGLProgramPipeline
    \/ BindGLProgramPipeline
    \/ DestroyGLProgramPipeline

SpecGL == InitGL /\ [][NextGL]_vars

\* the native bind calls among the native calls of a call
NativeBinds(call) == { k \in 1 .. Len(call.native) : call.native[k] = "glBind" }

C13_StackDiscipline ==
    glScope.phase = "done" =>
        /\ StacksEmpty(gl)
        /\ \A slot \in DOMAIN glScope.before :
               AsNumber(slot, Cached(gl.contextState, slot)) = glScope.before[slot]

\* N = MaxStackDepth pushes, a change in between, and the last pop restored a value
C13_Witness ==
    /\ glScope.phase = "done" /\ glScope.pushes = MaxStackDepth
    /\ glCall.op = "Pop" /\ glCall.native # << >>

(***************************************************************************)
(* C14: Release notification correctness.  No cache slot and no saved      *)
(* stack entry holds the name of a released object, and the first bind of  *)
(* an object created with the name of a released one issues a native bind  *)
(* call.                                                                   *)
(***************************************************************************)
C14_ReleaseNotification ==
    /\ \A kind \in BindKinds, id \in GLNames :
           ~Live(gl.names[kind][id]) =>
               /\ \A slot \in SlotsOf(kind) : gl.contextState.bound[slot] # id
               /\ kind \in StackKinds =>
                      \A i \in 1 .. Len(gl.stacks[kind]) : gl.stacks[kind][i].value # id
    /\ ( \/ glCall.op = "Bind" /\ glCall.was = "reused"
         \/ glCall.op = "CreateAndBind" /\ glCall.was = "released" )
       => NativeBinds(glCall) # {}

\* a name was bound, released, given to a new object, and that object was bound
C14_Witness ==
    /\ glCall.op = "Bind" /\ glCall.was = "reused"
    /\ gl.native.bound[glCall.slot] = glCall.value

(***************************************************************************)
(* C15: Cache and native state agree.  The cached flag of every capability *)
(* equals the flag of the GL context, and a Set, Enable or Disable whose   *)
(* value equals the cached one issues no native call.                      *)
(***************************************************************************)
C15_CapabilityCacheAgrees ==
    /\ gl.contextState.capabilities = gl.native.capabilities
    /\ (glCall.op \in {"Set", "Enable", "Disable"} /\ glCall.cached) => glCall.native = << >>

\* an Enable of a capability that was enabled already, another one being disabled
C15_Witness ==
    /\ glCall.op = "Enable" /\ glCall.cached
    /\ \E state \in GLStates : ~gl.native.capabilities[state]

(***************************************************************************)
(* The GL command stream (OpenGL/Command/GLCommandOpcode.h)                *)
(*                                                                         *)
(* A command is a one-byte GLOpcode tag followed by its payload; commands  *)
(* are appended to a flat byte stream and replayed from its start.         *)
(***************************************************************************)
\* number of commands a client records into one stream
MaxCommands == 3

\* the first and the last value of enum GLOpcode
GLOpcodeBufferSubData == 1
GLOpcodePopDebugGroup == 60

\* enum GLOpcode read as the set of tags from zero
IsGLOpcode_FromZero(tag) == tag \in 0 .. GLOpcodePopDebugGroup

\* the tag is one of the values of enum GLOpcode
IsGLOpcode(tag) == tag \in GLOpcodeBufferSubData .. GLOpcodePopDebugGroup

\* the opcodes the client records: GLOpcodeBufferSubData, GLOpcodeViewport and
\* GLOpcodePopDebugGroup
RecordedOpcodes == {1, 11, 60}

\* bytes a payload is made of, and bytes a corrupted stream may hold
PayloadBytes == {0, 7}
CorruptBytes == {0, 11, 61, 255}

\* size of the payload that follows a tag: specific to the opcode
PayloadSize(opcode) == opcode % 3

Payloads(opcode) == [1 .. PayloadSize(opcode) -> PayloadBytes]

\* recording that puts the command in front of the stream
AppendCommand_InFront(bytes, opcode, payload) == << opcode >> \o payload \o bytes

\* recording: tag and payload are appended contiguously
AppendCommand(bytes, opcode, payload) == bytes \o << opcode >> \o payload

\* one step of the replay at pc: the tag is dispatched to its apply routine,
\* which consumes the payload; an unknown tag or a payload that runs past
\* the end of the stream is fatal
ReplayAt(st) ==
    LET tag  == st.bytes[st.pc + 1]
        size == PayloadSize(tag)
    IN  IF ~IsGLOpcode(tag) \/ st.pc + 1 + size > Len(st.bytes)
        THEN [st EXCEPT !.status = "fatal"]
        ELSE [st EXCEPT
                 !.applied = Append(@, [opcode  |-> tag,
                                        payload |-> SubSeq(st.bytes, st.pc + 2,
                                                           st.pc + 1 + size)]),
                 !.pc = st.pc + 1 + size,
                 !.status = IF st.pc + 1 + size = Len(st.bytes) THEN "done"
                            ELSE "replaying"]

InitStream ==
    /\ glStream = [bytes |-> << >>, recorded |-> << >>, corrupted |-> FALSE,
                   status |-> "recording", pc |-> 0, applied |-> << >>]
    /\ OthersIdle({"stream"})

StreamUnchanged ==
    UNCHANGED <<fnArgs, fnRet, imgLayout, cmdBuffer, execPos, devCall, mem, memCall,
                rc, rcCall, fl, pso, cmdContext, gl, glCall, glScope>>

\* the client records a command
RecordCommand ==
    \E opcode \in RecordedOpcodes :
      \E payload \in Payloads(opcode) :
        /\ glStream.status = "recording"
        /\ Len(glStream.recorded) < MaxCommands
        /\ glStream' = [glStream EXCEPT
               !.bytes = AppendCommand(@, opcode, payload),
               !.recorded = Append(@, [opcode |-> opcode, payload |-> payload])]
        /\ StreamUnchanged

\* stream corruption: one byte of the recorded stream is overwritten
CorruptStream ==
    \E i \in 1 .. Len(glStream.bytes), byte \in CorruptBytes :
        /\ glStream.status = "recording" /\ ~glStream.corrupted
        /\ glStream.bytes[i] # byte
        /\ glStream' = [glStream EXCEPT !.bytes[i] = byte, !.corrupted = TRUE]
        /\ StreamUnchanged

\* the stream is submitted for execution
BeginReplay ==
    /\ glStream.status = "recording"
    /\ glStream' = [glStream EXCEPT
           !.status = IF glStream.bytes = << >> THEN "done" ELSE "replaying"]
    /\ StreamUnchanged

\* replay of the next command
ReplayCommand ==
    /\ glStream.status = "replaying"
    /\ glStream' = ReplayAt(glStream)
    /\ StreamUnchanged

NextStream == RecordCommand \/ CorruptStream \/ BeginReplay \/ ReplayCommand

SpecStream == InitStream /\ [][NextStream]_vars

(***************************************************************************)
(* C16: Replay order equals record order.  Replay of a recorded stream     *)
(* applies the recorded commands in the order of their recording, each     *)
(* once with its own payload: what has been applied is always the          *)
(* beginning of what was recorded, and all of it when replay is done.      *)
(***************************************************************************)
C16_ReplayInRecordOrder ==
    ~glStream.corrupted =>
        /\ glStream.status # "fatal"
        /\ Len(glStream.applied) <= Len(glStream.recorded)
        /\ glStream.applied = SubSeq(glStream.recorded, 1, Len(glStream.applied))
        /\ glStream.status = "done" => glStream.applied = glStream.recorded

\* a stream of MaxCommands commands of different opcodes has been replayed
C16_Witness ==
    /\ ~glStream.corrupted /\ glStream.status = "done"
    /\ Len(glStream.applied) = MaxCommands
    /\ glStream.applied[1].opcode # glStream.applied[2].opcode
    /\ glStream.applied[1].payload # << >>

(***************************************************************************)
(* C17: Unknown opcode is fatal.  When replay meets a tag that is not a    *)
(* value of GLOpcode (0 included), it ends in the fatal state without      *)
(* applying anything more; it never moves on past the tag.                 *)
(***************************************************************************)
C17_UnknownOpcodeFatal ==
    [][ /\ ( /\ glStream.status = "replaying"
             /\ \/ glStream.bytes[glStream.pc + 1] < GLOpcodeBufferSubData
                \/ glStream.bytes[glStream.pc + 1] > GLOpcodePopDebugGroup )
           => /\ glStream'.status = "fatal"
              /\ glStream'.applied = glStream.applied
              /\ glStream'.pc = glStream.pc
        /\ glStream.status = "fatal" => glStream' = glStream ]_vars

\* replay applied a command and then stopped at the tag 0
C17_Witness ==
    /\ glStream.status = "fatal" /\ glStream.applied # << >>
    /\ glStream.bytes[glStream.pc + 1] = 0
    /\ glStream.pc + 1 < Len(glStream.bytes)

(***************************************************************************)
(* Copy barriers against the layouts the images are in                     *)
(***************************************************************************)
\* the command the queue executes next
NextCommand == cmdBuffer[execPos + 1]

\* the subresources a barrier addresses
BarrierRange(c) ==
    { <<c.image, lm[1], lm[2]>> :
        lm \in RangeOf(c.baseArrayLayer, c.layerCount, c.baseMipLevel, c.levelCount) }

(***************************************************************************)
(* C21: No mismatched old layout in copy barriers.  With the caller's      *)
(* srcImageLayout and dstImageLayout being the layouts on entry, every     *)
(* barrier recorded by CopyImage and ResolveImage names as oldLayout the   *)
(* layout its subresources are in when the queue reaches the barrier, for  *)
(* every pair of source and destination, the same subresource included.    *)
(***************************************************************************)
C21_OldLayoutMatches ==
    ( /\ devCall.op \in {"CopyImage", "ResolveImage"}
      /\ execPos < Len(cmdBuffer)
      /\ NextCommand.cmd = "vkCmdPipelineBarrier" )
    => \A sr \in BarrierRange(NextCommand) : imgLayout[sr] = NextCommand.oldLayout

\* the same for calls whose source and destination subresources do not overlap
C21_DisjointOldLayoutMatches ==
    ( /\ devCall.op \in {"CopyImage", "ResolveImage"}
      /\ execPos < Len(cmdBuffer)
      /\ NextCommand.cmd = "vkCmdPipelineBarrier"
      /\ \/ devCall.srcImage # devCall.dstImage
         \/ LayersOf(devCall.region.srcSubresource)
                \cap LayersOf(devCall.region.dstSubresource) = {} )
    => \A sr \in BarrierRange(NextCommand) : imgLayout[sr] = NextCommand.oldLayout

(***************************************************************************)
(* The command sequence of one copy operation                              *)
(***************************************************************************)
NativeCopyCmds ==
    {"vkCmdCopyImage", "vkCmdResolveImage", "vkCmdCopyBufferToImage", "vkCmdCopyImageToBuffer"}

ImageCopyOps ==
    {"CopyImage", "ResolveImage", "CopyTexture", "CopyBufferToImage", "CopyImageToBuffer"}

\* the images the native copy command c touches, as <<image, subresources, transfer
\* layout>>; a buffer is not an image
TouchedBy(c) ==
    LET sub(r) == { <<lm[1], lm[2]>> : lm \in RangeOf(r.baseArrayLayer, r.layerCount, r.mipLevel, 1) }
    IN  CASE c.cmd \in {"vkCmdCopyImage", "vkCmdResolveImage"} ->
                 { <<c.srcImage, sub(c.region.srcSubresource), "TRANSFER_SRC_OPTIMAL">>,
                   <<c.dstImage, sub(c.region.dstSubresource), "TRANSFER_DST_OPTIMAL">> }
          [] c.cmd = "vkCmdCopyBufferToImage" ->
                 { <<c.dstImage, sub(c.region.imageSubresource), "TRANSFER_DST_OPTIMAL">> }
          [] c.cmd = "vkCmdCopyImageToBuffer" ->
                 { <<c.srcImage, sub(c.region.imageSubresource), "TRANSFER_SRC_OPTIMAL">> }
          [] OTHER -> {}

\* command i of cb is a barrier on all of the subresources t[2] of image t[1]
BarrierOn(cb, i, t) ==
    /\ cb[i].cmd = "vkCmdPipelineBarrier"
    /\ cb[i].image = t[1]
    /\ t[2] \subseteq RangeOf(cb[i].baseArrayLayer, cb[i].layerCount,
                              cb[i].baseMipLevel, cb[i].levelCount)

\* the native copy at position k of cb is bracketed by barriers for every image it touches
Bracketed(cb, k) ==
    \A t \in TouchedBy(cb[k]) :
        /\ \E i \in 1 .. (k - 1) : BarrierOn(cb, i, t) /\ cb[i].newLayout = t[3]
        /\ \E j \in (k + 1) .. Len(cb) : BarrierOn(cb, j, t) /\ cb[j].oldLayout = t[3]

(***************************************************************************)
(* C22: Copy operations bracket the native copy.  In the sequence recorded *)
(* by CopyImage, ResolveImage, CopyTexture, CopyBufferToImage or           *)
(* CopyImageToBuffer the native copy command is preceded by barriers that  *)
(* move every image it touches into its transfer layout and followed by    *)
(* barriers that move it out of it again.                                  *)
(***************************************************************************)
C22_CopyBracketed ==
    (devCall.op \in ImageCopyOps /\ cmdBuffer # << >>) =>
        /\ \E k \in 1 .. Len(cmdBuffer) : cmdBuffer[k].cmd \in NativeCopyCmds
        /\ \A k \in 1 .. Len(cmdBuffer) :
               cmdBuffer[k].cmd \in NativeCopyCmds => Bracketed(cmdBuffer, k)

\* the same for CopyImage and ResolveImage only, the barriers after the copy
\* leading back to the caller's layouts
C22_CopyImageBracketed ==
    (devCall.op \in {"CopyImage", "ResolveImage"} /\ cmdBuffer # << >>) =>
        /\ Len(cmdBuffer) = 5 /\ cmdBuffer[3].cmd \in NativeCopyCmds
        /\ Bracketed(cmdBuffer, 3)
        /\ cmdBuffer[4].newLayout = devCall.srcImageLayout
        /\ cmdBuffer[5].newLayout = devCall.dstImageLayout

(***************************************************************************)
(* SpecTransition: TransitionImageLayout is called once on an empty        *)
(* command buffer, for every pair of layouts.                              *)
(***************************************************************************)
TransitionArgs ==
    [ fn : {"TransitionImageLayout"}, image : Images, format : Formats,
      oldLayout : Layouts, newLayout : Layouts, subresource : CopySubresources ]

InitTransition ==
    /\ fnArgs \in TransitionArgs
    /\ fnRet = << >>
    /\ OthersIdle({"fn"})

CallTransitionImageLayout ==
    /\ fnArgs.fn = "TransitionImageLayout"
    /\ fnRet = << >>
    /\ fnRet' = << TransitionImageLayout(<< >>, fnArgs.image, fnArgs.format, fnArgs.oldLayout,
                                         fnArgs.newLayout, fnArgs.subresource) >>
    /\ UNCHANGED <<fnArgs, imgLayout, cmdBuffer, execPos, devCall, mem, memCall, rc, rcCall, fl,
                   backendVars>>

NextTransition == CallTransitionImageLayout

SpecTransition == InitTransition /\ [][NextTransition]_vars

\* <<srcAccessMask, dstAccessMask, srcStageMask, dstStageMask>> of a recorded barrier
MasksOf(barrier) ==
    << barrier.srcAccessMask, barrier.dstAccessMask, barrier.srcStageMask, barrier.dstStageMask >>

(***************************************************************************)
(* C23: Barrier mask selection.  TransitionImageLayout records exactly one *)
(* barrier with the given old and new layout; undefined -> transfer-dst    *)
(* uses access (none -> transfer-write) and stages (top-of-pipe ->         *)
(* transfer); transfer-dst -> shader-read-only uses access (transfer-write *)
(* -> shader-read) and stages (transfer -> fragment-shader); every other   *)
(* pair uses empty access masks and stages (top-of-pipe -> bottom-of-pipe).*)
(***************************************************************************)
C23_BarrierMasks ==
    (fnArgs.fn = "TransitionImageLayout" /\ fnRet # << >>) =>
        LET cb == fnRet[1] IN
        /\ Len(cb) = 1
        /\ cb[1].cmd = "vkCmdPipelineBarrier"
        /\ cb[1].image = fnArgs.image
        /\ cb[1].oldLayout = fnArgs.oldLayout
        /\ cb[1].newLayout = fnArgs.newLayout
        /\ MasksOf(cb[1]) =
             CASE fnArgs.oldLayout = "UNDEFINED" /\ fnArgs.newLayout = "TRANSFER_DST_OPTIMAL" ->
                      << "0", "TRANSFER_WRITE", "TOP_OF_PIPE", "TRANSFER" >>
               [] fnArgs.oldLayout = "TRANSFER_DST_OPTIMAL"
                      /\ fnArgs.newLayout = "SHADER_READ_ONLY_OPTIMAL" ->
                      << "TRANSFER_WRITE", "SHADER_READ", "TRANSFER", "FRAGMENT_SHADER" >>
               [] OTHER -> << "0", "0", "TOP_OF_PIPE", "BOTTOM_OF_PIPE" >>

\* the barrier of a first-class pair has been recorded
C23_Witness ==
    /\ fnArgs.fn = "TransitionImageLayout" /\ fnRet # << >>
    /\ fnArgs.oldLayout = "TRANSFER_DST_OPTIMAL"
    /\ fnArgs.newLayout = "SHADER_READ_ONLY_OPTIMAL"
    /\ fnRet[1][1].dstStageMask = "FRAGMENT_SHADER"

(***************************************************************************)
(* C24: Fence before reclaim.  FlushCommandBuffer ends the recording,      *)
(* submits with a fresh fence, waits for that fence and only then, when    *)
(* release is set, frees the command buffer: a buffer is freed only from   *)
(* the state in which its work has completed and its fence is signaled,    *)
(* and with release = false it is not freed.                               *)
(***************************************************************************)
C24_FenceBeforeReclaim ==
    [][ /\ (fl'.cmdBuffer = "freed" /\ fl.cmdBuffer # "freed")
            => /\ fl.pc = "fence.Wait" /\ fl.release
               /\ fl.cmdBuffer = "completed" /\ fl.fence = "signaled"
        /\ (fl'.cmdBuffer = "pending") => ~(\E k \in 1 .. Len(fl'.calls) :
                                               fl'.calls[k] = "vkFreeCommandBuffers")
        /\ (fl'.op = "FlushCommandBuffer" /\ fl'.returned)
            => /\ SubSeq(fl'.calls, 1, 5) = <<"vkEndCommandBuffer", "vkCreateFence",
                                              "vkQueueSubmit", "vkWaitForFences",
                                              "vkDestroyFence">>
               /\ IF fl'.release
                  THEN /\ Len(fl'.calls) = 6 /\ fl'.calls[6] = "vkFreeCommandBuffers"
                       /\ fl'.cmdBuffer = "freed"
                  ELSE /\ Len(fl'.calls) = 5
                       /\ fl'.cmdBuffer = "completed" ]_vars

\* a flush with release = true has returned and freed the buffer
C24_Witness ==
    /\ fl.op = "FlushCommandBuffer" /\ fl.returned /\ fl.release
    /\ fl.cmdBuffer = "freed" /\ Len(fl.calls) = 6

(***************************************************************************)
(* SpecSubmitLive: SpecSubmit where the GPU completes the work the queue   *)
(* has accepted, and the thread inside FlushCommandBuffer goes on once     *)
(* fence.Wait can return.                                                  *)
(***************************************************************************)
SpecSubmitLive ==
    /\ SpecSubmit
    /\ WF_vars(QueueCompletes)
    /\ WF_vars(FlushCommandBufferReturn)

(***************************************************************************)
(* C25: FlushCommandBuffer never blocks forever.  When the GPU completes   *)
(* all work the queue accepted, a FlushCommandBuffer that is waiting for   *)
(* its fence eventually returns or reports a failure, also when the native *)
(* queue submission was rejected.                                          *)
(***************************************************************************)
C25_FlushTerminates ==
    (fl.pc = "fence.Wait") ~> (fl.pc = "done")

\* the same for the flushes whose submission the queue accepted
C25_AcceptedFlushTerminates ==
    (fl.pc = "fence.Wait" /\ fl.failed = NoFail) ~> (fl.pc = "done")

(***************************************************************************)
(* VKDevice::CopyBuffer                                                    *)
(***************************************************************************)
\* CopyBuffer(commandBuffer, srcBuffer, dstBuffer, size, srcOffset, dstOffset):
\* records one vkCmdCopyBuffer
CopyBuffer(recorded, srcBuffer, dstBuffer, size, srcOffset, dstOffset) ==
    Append(recorded, [ cmd |-> "vkCmdCopyBuffer", srcBuffer |-> srcBuffer,
                       dstBuffer |-> dstBuffer,
                       region |-> [srcOffset |-> srcOffset, dstOffset |-> dstOffset,
                                   size |-> size] ])

\* CopyBuffer(srcBuffer, dstBuffer, size, srcOffset, dstOffset), the immediate
\* overload, up to fence.Wait: AllocCommandBuffer(), the recording, and
\* FlushCommandBuffer(cmdBuffer) with release left at its default, true
CopyBufferImmediate ==
    /\ fl.pc \in {"idle", "done"}
    /\ fl.pool < MaxPool
    /\ \E srcBuffer \in Buffers, dstBuffer \in Buffers, size \in 1 .. ChunkSize,
          fail \in {NoFail, "vkAllocateCommandBuffers", "vkBeginCommandBuffer",
                    "vkEndCommandBuffer", "vkQueueSubmit"} :
          LET new      == [NoCommandBuffer EXCEPT !.op = "CopyBuffer", !.failed = fail]
              recorded == CopyBuffer(<< >>, srcBuffer, dstBuffer, size, 0, 0)
          IN  fl' = CASE fail = "vkAllocateCommandBuffers" ->
                            [new EXCEPT !.pc = "done", !.pool = fl.pool,
                                !.calls = <<"vkAllocateCommandBuffers">>,
                                !.thrown = "failed to allocate Vulkan command buffer"]
                      [] fail = "vkBeginCommandBuffer" ->
                            [new EXCEPT !.pc = "done", !.pool = fl.pool + 1,
                                !.cmdBuffer = "initial",
                                !.calls = <<"vkAllocateCommandBuffers", "vkBeginCommandBuffer">>,
                                !.thrown = "failed to begin recording Vulkan command buffer"]
                      [] fail = "vkEndCommandBuffer" ->
                            [new EXCEPT !.pc = "done", !.pool = fl.pool + 1,
                                !.cmdBuffer = "invalid", !.recorded = recorded,
                                !.calls = <<"vkAllocateCommandBuffers", "vkBeginCommandBuffer",
                                            "vkCmdCopyBuffer", "vkEndCommandBuffer">>,
                                !.thrown = "failed to end recording Vulkan command buffer"]
                      [] OTHER ->
                            [new EXCEPT !.pc = "fence.Wait", !.pool = fl.pool + 1,
                                !.release = TRUE,
                                !.cmdBuffer = IF fail = "vkQueueSubmit"
                                              THEN "executable" ELSE "pending",
                                !.fence = "unsignaled", !.recorded = recorded,
                                !.calls = <<"vkAllocateCommandBuffers", "vkBeginCommandBuffer",
                                            "vkCmdCopyBuffer", "vkEndCommandBuffer",
                                            "vkCreateFence", "vkQueueSubmit",
                                            "vkWaitForFences">>]
    /\ UNCHANGED <<fnArgs, fnRet, imgLayout, cmdBuffer, execPos, devCall, mem, memCall, rc, rcCall,
                   backendVars>>

(***************************************************************************)
(* SpecCopyBuffer: a sequence of immediate CopyBuffer calls on one device. *)
(***************************************************************************)
InitCopyBuffer ==
    /\ fl = NoCommandBuffer
    /\ OthersIdle({"fl"})

NextCopyBuffer ==
    \/ CopyBufferImmediate
    \/ QueueCompletes
    \/ FlushCommandBufferReturn

SpecCopyBuffer == InitCopyBuffer /\ [][NextCopyBuffer]_vars

(***************************************************************************)
(* C26: No command buffer leak.  After any sequence of immediate           *)
(* CopyBuffer calls, each of which has returned or failed at allocation,   *)
(* at begin-recording or at end-recording, no command buffer is allocated  *)
(* from the command pool of the device.                                    *)
(***************************************************************************)
C26_NoCommandBufferLeak ==
    fl.pc \in {"idle", "done"} => fl.pool = 0

\* a CopyBuffer call that gets through its wait frees the buffer it allocated
C26_CompletedCopyFreesBuffer ==
    [][ (fl.pc = "fence.Wait" /\ fl'.pc = "done")
            => fl'.returned /\ fl'.cmdBuffer = "freed" /\ fl'.pool = fl.pool - 1 ]_vars

(***************************************************************************)
(* Claims on the presentation state of VKRenderContext                     *)
(***************************************************************************)
\* the acquires among the native calls of the last operation
AcquiresOf(calls) ==
    { k \in 1 .. Len(calls) : calls[k].fn = "vkAcquireNextImageKHR" }

(***************************************************************************)
(* C27: Image-available semaphore is never signalled twice without a wait. *)
(* Over any sequence of construction, Present, ResizeBuffersPrimary and    *)
(* SetVsyncInterval, every vkAcquireNextImageKHR is issued with an         *)
(* image-available semaphore that has no pending signal: since the last    *)
(* acquire on that semaphore object a Present submit has waited on it, or  *)
(* the semaphore is a new one.                                             *)
(***************************************************************************)
C27_NoDoubleSignal ==
    \A k \in AcquiresOf(rcCall.calls) : rcCall.calls[k].pending = 0

\* the same for Present and ResizeBuffersPrimary on a context whose semaphore
\* has at most the one signal of its last acquire pending
C27_NoDoubleSignalWithoutVsync ==
    [][ (rcCall'.op # "SetVsyncInterval" /\ rc.imageAvailableSemaphore_.signals <= 1)
            => \A k \in AcquiresOf(rcCall'.calls) : rcCall'.calls[k].pending = 0 ]_vars

\* VKRenderContext::GetVkFramebuffer: swapChainFramebuffers_[presentImageIndex_];
\* an index past the end of the array yields no framebuffer of the context
GetVkFramebuffer(r) ==
    ReadAt(r.swapChainFramebuffers_, r.presentImageIndex_, NullFramebuffer)

\* framebuffer fb was created for the swap-chain the context holds
OfCurrentSwapChain(r, fb) ==
    /\ fb.id # 0 /\ ~IsDangling(fb.id)
    /\ r.presentImageIndex_ \in Slots
    /\ fb.color = r.swapChainImageViews_[r.presentImageIndex_].id
    /\ fb.color # 0 /\ ~IsDangling(fb.color)
    /\ r.swapChainImageViews_[r.presentImageIndex_].image = r.swapChain_.id

(***************************************************************************)
(* C28: Present index stays in range.  In every state after construction   *)
(* that a sequence of Present, resize and v-sync change has reached        *)
(* (acquires that fail included), presentImageIndex_ is less than          *)
(* numSwapChainBuffers_, and GetVkFramebuffer returns a framebuffer        *)
(* created for the current swap-chain.                                     *)
(***************************************************************************)
C28_PresentIndexInRange ==
    rcCall.returned =>
        /\ rc.presentImageIndex_ < rc.numSwapChainBuffers_
        /\ OfCurrentSwapChain(rc, GetVkFramebuffer(rc))

\* the index alone, while no loop has stored past the end of an array
C28_IndexBelowCount ==
    (rcCall.returned /\ ~rc.overrun) => rc.presentImageIndex_ < rc.numSwapChainBuffers_

\* the whole of it for the contexts of at most g_maxNumColorBuffers images
C28_InRangeWithinArrays ==
    (rcCall.returned /\ ~rc.overrun /\ rc.numSwapChainBuffers_ <= g_maxNumColorBuffers) =>
        /\ rc.presentImageIndex_ < rc.numSwapChainBuffers_
        /\ OfCurrentSwapChain(rc, GetVkFramebuffer(rc))

\* framebuffer i of context r references the attachments that exist for image i
AttachmentsExist(r, i) ==
    /\ i \in Slots
    /\ LET fb == r.swapChainFramebuffers_[i] IN
       /\ fb.id # 0 /\ ~IsDangling(fb.id)
       /\ fb.color # 0 /\ fb.color = r.swapChainImageViews_[i].id
       /\ r.swapChainImageViews_[i].image # 0
       /\ r.swapChainImageViews_[i].image = r.swapChain_.id
       /\ r.swapChainImages_[i] = r.swapChain_.id
       /\ IF HasDepthStencilBuffer(r)
          THEN fb.depthStencil # 0 /\ fb.depthStencil = r.depthStencilBuffer_.id
          ELSE fb.depthStencil = 0
       /\ IF HasMultiSampling(r)
          THEN fb.colorMS # 0 /\ fb.colorMS = r.colorBuffers_[i].id
          ELSE fb.colorMS = 0

(***************************************************************************)
(* C29: Buffer set is fully recreated.  After every completed resize or    *)
(* v-sync-interval change each framebuffer at an index below               *)
(* numSwapChainBuffers_ references only attachments that exist then: the   *)
(* view of image i of the current swap-chain, the current depth-stencil    *)
(* view when there is a depth-stencil buffer, and the created multisample  *)
(* color buffer i when multisampling is on.                                *)
(***************************************************************************)
C29_BufferSetRecreated ==
    (rcCall.op \in {"ResizeBuffersPrimary", "SetVsyncInterval"} /\ rcCall.returned) =>
        \A i \in 0 .. (rc.numSwapChainBuffers_ - 1) : AttachmentsExist(rc, i)

\* the same for a ResizeBuffersPrimary that recreates, while the swap-chain has
\* at most g_maxNumColorBuffers images
C29_ResizeRecreatedWithinArrays ==
    ( /\ rcCall.op = "ResizeBuffersPrimary" /\ rcCall.returned /\ rcCall.calls # << >>
      /\ ~rc.overrun /\ rc.numSwapChainBuffers_ <= g_maxNumColorBuffers ) =>
        \A i \in 0 .. (rc.numSwapChainBuffers_ - 1) : AttachmentsExist(rc, i)

\* the operation whose native calls are given waited for the graphics queue
\* before the first call that destroys an object, when it destroys one at all
IdleBeforeFirstDestroy(calls) ==
    FirstDestroy(calls, 1) <= Len(calls) =>
        \E k \in 1 .. (FirstDestroy(calls, 1) - 1) : calls[k].fn = "vkQueueWaitIdle"

(***************************************************************************)
(* C30: Queue is idle before any swap-chain destruction.  Every operation  *)
(* of VKRenderContext that destroys a swap-chain, image view or            *)
(* framebuffer after construction (ResizeBuffersPrimary and                *)
(* SetVsyncInterval) waits for the graphics queue to be idle before the    *)
(* first destruction.                                                      *)
(***************************************************************************)
C30_IdleBeforeDestruction ==
    rcCall.op \in {"ResizeBuffersPrimary", "SetVsyncInterval"}
        => IdleBeforeFirstDestroy(rcCall.calls)

\* the same for ResizeBuffersPrimary alone
C30_ResizeIdleBeforeDestruction ==
    rcCall.op = "ResizeBuffersPrimary" => IdleBeforeFirstDestroy(rcCall.calls)

(***************************************************************************)
(* Claims on the selection functions of VKRenderContext                    *)
(***************************************************************************)
Abs(x) == IF x < 0 THEN -x ELSE x

\* e is, in dimension d, the value inside the limits of caps nearest to r
NearestInside(caps, r, e, d) ==
    /\ e[d] \in caps.minImageExtent[d] .. caps.maxImageExtent[d]
    /\ \A v \in caps.minImageExtent[d] .. caps.maxImageExtent[d] :
           Abs(e[d] - r[d]) <= Abs(v - r[d])

\* resolution r lies inside the limits of caps
InsideLimits(caps, r) ==
    \A d \in {1, 2} : r[d] \in caps.minImageExtent[d] .. caps.maxImageExtent[d]

(***************************************************************************)
(* C31: Resize is idempotent for every resolution.  For every requested    *)
(* resolution r, also one outside the surface's limits, the second of two  *)
(* successive calls ResizeBuffersPrimary(r) recreates nothing; and the     *)
(* extent PickSwapExtent gave the swap-chain is r when r lies inside the   *)
(* limits and otherwise the nearest value inside them, per dimension.      *)
(***************************************************************************)
C31_ResizeIdempotent ==
    [][ /\ ( /\ rcCall.op = "ResizeBuffersPrimary" /\ rcCall.returned
             /\ rcCall'.op = "ResizeBuffersPrimary"
             /\ rcCall'.resolution = rcCall.resolution )
            => rcCall'.calls = << >> /\ rc' = rc
        /\ ( /\ rcCall'.op = "ResizeBuffersPrimary" /\ rcCall'.returned
             /\ rcCall'.calls # << >> /\ ~rc'.overrun )
            => \A d \in {1, 2} :
                   NearestInside(rc'.surfaceCaps, rcCall'.resolution, rc'.swapChainExtent_, d)
      ]_vars

\* the second call recreates nothing when r lies inside the limits of the surface
C31_IdempotentInsideLimits ==
    [][ ( /\ rcCall.op = "ResizeBuffersPrimary" /\ rcCall.returned
          /\ rcCall'.op = "ResizeBuffersPrimary"
          /\ rcCall'.resolution = rcCall.resolution
          /\ InsideLimits(rc.surfaceCaps, rcCall.resolution) )
            => rcCall'.calls = << >> /\ rc' = rc ]_vars

\* the extent of a recreated swap-chain is the nearest value inside the limits
C31_ExtentNearestInside ==
    ( /\ rcCall.op = "ResizeBuffersPrimary" /\ rcCall.returned
      /\ rcCall.calls # << >> /\ ~rc.overrun )
        => /\ \A d \in {1, 2} :
                  NearestInside(rc.surfaceCaps, rcCall.resolution, rc.swapChainExtent_, d)
           /\ InsideLimits(rc.surfaceCaps, rcCall.resolution)
                  => rc.swapChainExtent_ = rcCall.resolution


(***************************************************************************)
(* The selection functions as pure functions: each is applied once to      *)
(* arguments drawn from bounded sets                                       *)
(***************************************************************************)
MaxModes == 3
MaxFormats == 3

ListsOf(S, n) == UNION { [1..k -> S] : k \in 0..n }

PresentModes == { "VK_PRESENT_MODE_IMMEDIATE_KHR", "VK_PRESENT_MODE_MAILBOX_KHR",
                  "VK_PRESENT_MODE_FIFO_KHR", "VK_PRESENT_MODE_FIFO_RELAXED_KHR" }

SurfaceFormat(format, colorSpace) == [format |-> format, colorSpace |-> colorSpace]

SurfaceFormats ==
    { SurfaceFormat(f, c) :
        f \in {"VK_FORMAT_UNDEFINED", "VK_FORMAT_B8G8R8A8_UNORM", "VK_FORMAT_R8G8B8A8_UNORM"},
        c \in {"VK_COLOR_SPACE_SRGB_NONLINEAR_KHR", "VK_COLOR_SPACE_EXTENDED_SRGB_LINEAR_EXT"} }

DepthStencilFormats ==
    { "VK_FORMAT_D32_SFLOAT_S8_UINT", "VK_FORMAT_D24_UNORM_S8_UINT", "VK_FORMAT_D16_UNORM_S8_UINT",
      "VK_FORMAT_D32_SFLOAT", "VK_FORMAT_D16_UNORM" }

\* VKRenderContext::PickSwapSurfaceFormat: the thrown error and the returned format
PickSwapSurfaceFormat_Front(surfaceFormats) ==
    IF surfaceFormats = << >>
    THEN [thrown |-> "no Vulkan surface formats available", format |-> None]
    ELSE IF Len(surfaceFormats) = 1 /\ Head(surfaceFormats).format = "VK_FORMAT_UNDEFINED"
    THEN [thrown |-> NoThrow,
          format |-> SurfaceFormat("VK_FORMAT_B8G8R8A8_UNORM", "VK_COLOR_SPACE_SRGB_NONLINEAR_KHR")]
    ELSE [thrown |-> NoThrow, format |-> Head(surfaceFormats)]

PickSwapSurfaceFormat(surfaceFormats) ==
    IF surfaceFormats = << >>
    THEN [thrown |-> "no Vulkan surface formats available", format |-> None]
    ELSE IF Len(surfaceFormats) = 1 /\ Head(surfaceFormats).format = "VK_FORMAT_UNDEFINED"
    THEN [thrown |-> NoThrow,
          format |-> SurfaceFormat("VK_FORMAT_B8G8R8A8_UNORM", "VK_COLOR_SPACE_SRGB_NONLINEAR_KHR")]
    ELSE IF \E i \in 1..Len(surfaceFormats) :
                /\ surfaceFormats[i].format = "VK_FORMAT_B8G8R8A8_UNORM"
                /\ surfaceFormats[i].colorSpace = "VK_COLOR_SPACE_SRGB_NONLINEAR_KHR"
    THEN LET i == CHOOSE k \in 1..Len(surfaceFormats) :
                      /\ surfaceFormats[k].format = "VK_FORMAT_B8G8R8A8_UNORM"
                      /\ surfaceFormats[k].colorSpace = "VK_COLOR_SPACE_SRGB_NONLINEAR_KHR"
                      /\ \A j \in 1..(k - 1) :
                             ~ /\ surfaceFormats[j].format = "VK_FORMAT_B8G8R8A8_UNORM"
                               /\ surfaceFormats[j].colorSpace = "VK_COLOR_SPACE_SRGB_NONLINEAR_KHR"
         IN  [thrown |-> NoThrow, format |-> surfaceFormats[i]]
    ELSE [thrown |-> NoThrow, format |-> Head(surfaceFormats)]

\* GetDepthStencilFormatPreference (static, VKRenderContext.cpp)
GetDepthStencilFormatPreference(depthBits, stencilBits) ==
    IF stencilBits = 0 /\ depthBits = 32
    THEN << "VK_FORMAT_D32_SFLOAT", "VK_FORMAT_D24_UNORM_S8_UINT",
            "VK_FORMAT_D16_UNORM_S8_UINT", "VK_FORMAT_D16_UNORM" >>
    ELSE IF stencilBits # 0 /\ depthBits = 32
    THEN << "VK_FORMAT_D32_SFLOAT_S8_UINT", "VK_FORMAT_D24_UNORM_S8_UINT",
            "VK_FORMAT_D16_UNORM_S8_UINT" >>
    ELSE << "VK_FORMAT_D24_UNORM_S8_UINT", "VK_FORMAT_D16_UNORM_S8_UINT",
            "VK_FORMAT_D32_SFLOAT", "VK_FORMAT_D16_UNORM" >>

\* VKFindSupportedImageFormat: the first candidate the device supports
RECURSIVE VKFindSupportedImageFormat(_, _)
VKFindSupportedImageFormat(formats, supported) ==
    IF formats = << >> THEN "VK_FORMAT_UNDEFINED"
    ELSE IF Head(formats) \in supported THEN Head(formats)
    ELSE VKFindSupportedImageFormat(Tail(formats), supported)

\* VKRenderContext::PickDepthStencilFormat on a device supporting the formats of supported
PickDepthStencilFormat(depthBits, stencilBits, supported) ==
    VKFindSupportedImageFormat(GetDepthStencilFormatPreference(depthBits, stencilBits), supported)

SelectArgs ==
    { [fn |-> "PickSwapPresentMode", presentModes |-> m, vsyncInterval |-> v] :
        m \in ListsOf(PresentModes, MaxModes), v \in 0..MaxVsync }
    \cup { [fn |-> "PickSwapSurfaceFormat", surfaceFormats |-> f] :
        f \in ListsOf(SurfaceFormats, MaxFormats) }
    \cup { [fn |-> "PickDepthStencilFormat", depthBits |-> d, stencilBits |-> s, supported |-> u] :
        d \in {0, 16, 24, 32}, s \in {0, 1, 8}, u \in SUBSET DepthStencilFormats }

InitSelect ==
    /\ fnArgs \in SelectArgs
    /\ fnRet = << >>
    /\ OthersIdle({"fn"})

CallPickSwapPresentMode ==
    /\ fnArgs.fn = "PickSwapPresentMode"
    /\ fnRet = << >>
    /\ fnRet' = << PickSwapPresentMode(fnArgs.presentModes, fnArgs.vsyncInterval) >>
    /\ UNCHANGED <<fnArgs, imgLayout, cmdBuffer, execPos, devCall, mem, memCall, rc, rcCall, fl,
                   backendVars>>

CallPickSwapSurfaceFormat ==
    /\ fnArgs.fn = "PickSwapSurfaceFormat"
    /\ fnRet = << >>
    /\ fnRet' = << PickSwapSurfaceFormat(fnArgs.surfaceFormats) >>
    /\ UNCHANGED <<fnArgs, imgLayout, cmdBuffer, execPos, devCall, mem, memCall, rc, rcCall, fl,
                   backendVars>>

CallPickDepthStencilFormat ==
    /\ fnArgs.fn = "PickDepthStencilFormat"
    /\ fnRet = << >>
    /\ fnRet' = << [formats |-> GetDepthStencilFormatPreference(fnArgs.depthBits, fnArgs.stencilBits),
                    picked  |-> PickDepthStencilFormat(fnArgs.depthBits, fnArgs.stencilBits,
                                                       fnArgs.supported)] >>
    /\ UNCHANGED <<fnArgs, imgLayout, cmdBuffer, execPos, devCall, mem, memCall, rc, rcCall, fl,
                   backendVars>>

NextSelect ==
    \/ CallPickSwapPresentMode
    \/ CallPickSwapSurfaceFormat
    \/ CallPickDepthStencilFormat

SpecSelect == InitSelect /\ [][NextSelect]_vars

NonBlockingModes == {"VK_PRESENT_MODE_MAILBOX_KHR", "VK_PRESENT_MODE_IMMEDIATE_KHR"}

(***************************************************************************)
(* C32: Present mode selection.  PickSwapPresentMode returns FIFO whenever *)
(* vsyncInterval # 0; when vsyncInterval = 0 it returns the first entry of *)
(* the supported list that is MAILBOX or IMMEDIATE, and FIFO if there is   *)
(* none; it never returns a mode that is neither FIFO nor contained in the *)
(* supported list.                                                         *)
(***************************************************************************)
C32_PresentModeSelection ==
    (fnArgs.fn = "PickSwapPresentMode" /\ fnRet # << >>) =>
        LET modes == fnArgs.presentModes
            hits  == { i \in 1..Len(modes) : modes[i] \in NonBlockingModes }
        IN  /\ fnArgs.vsyncInterval # 0 => fnRet[1] = "VK_PRESENT_MODE_FIFO_KHR"
            /\ (fnArgs.vsyncInterval = 0 /\ hits # {}) =>
                   \E i \in hits : (\A j \in hits : i <= j) /\ fnRet[1] = modes[i]
            /\ (fnArgs.vsyncInterval = 0 /\ hits = {}) => fnRet[1] = "VK_PRESENT_MODE_FIFO_KHR"
            /\ \/ fnRet[1] = "VK_PRESENT_MODE_FIFO_KHR"
               \/ \E i \in 1..Len(modes) : modes[i] = fnRet[1]

\* v-sync is requested on a surface that offers a non-blocking mode before FIFO
C32_Witness ==
    /\ fnArgs.fn = "PickSwapPresentMode" /\ fnRet # << >>
    /\ fnArgs.vsyncInterval # 0
    /\ fnArgs.presentModes = << "VK_PRESENT_MODE_FIFO_RELAXED_KHR", "VK_PRESENT_MODE_IMMEDIATE_KHR",
                                "VK_PRESENT_MODE_MAILBOX_KHR" >>
    /\ fnRet[1] = "VK_PRESENT_MODE_FIFO_KHR"

\* without v-sync the first non-blocking entry wins, also when FIFO is not offered
C32_WitnessFirstNonBlocking ==
    /\ fnArgs.fn = "PickSwapPresentMode" /\ fnRet # << >>
    /\ fnArgs.vsyncInterval = 0
    /\ fnArgs.presentModes = << "VK_PRESENT_MODE_FIFO_RELAXED_KHR", "VK_PRESENT_MODE_IMMEDIATE_KHR",
                                "VK_PRESENT_MODE_MAILBOX_KHR" >>
    /\ fnRet[1] = "VK_PRESENT_MODE_IMMEDIATE_KHR"


PreferredSurfaceFormat == SurfaceFormat("VK_FORMAT_B8G8R8A8_UNORM", "VK_COLOR_SPACE_SRGB_NONLINEAR_KHR")

(***************************************************************************)
(* C33: Surface format selection.  PickSwapSurfaceFormat returns the       *)
(* (BGRA8 UNORM, sRGB non-linear) entry whenever the supported list        *)
(* contains it, returns that same pair when the list is the single entry   *)
(* 'undefined', returns the first entry of the list otherwise, and fails   *)
(* with an error, returning no format, when the list is empty.             *)
(***************************************************************************)
C33_SurfaceFormatSelection ==
    (fnArgs.fn = "PickSwapSurfaceFormat" /\ fnRet # << >>) =>
        LET list      == fnArgs.surfaceFormats
            contains  == \E i \in 1..Len(list) : list[i] = PreferredSurfaceFormat
            undefined == Len(list) = 1 /\ list[1].format = "VK_FORMAT_UNDEFINED"
        IN  /\ Len(list) = 0 => fnRet[1].thrown # NoThrow /\ fnRet[1].format = None
            /\ Len(list) > 0 => fnRet[1].thrown = NoThrow
            /\ contains => fnRet[1].format = PreferredSurfaceFormat
            /\ undefined => fnRet[1].format = PreferredSurfaceFormat
            /\ (Len(list) > 0 /\ ~contains /\ ~undefined) => fnRet[1].format = list[1]

\* the preferred pair is found behind other entries of the list
C33_Witness ==
    /\ fnArgs.fn = "PickSwapSurfaceFormat" /\ fnRet # << >>
    /\ Len(fnArgs.surfaceFormats) = 3
    /\ fnArgs.surfaceFormats[1].format = "VK_FORMAT_R8G8B8A8_UNORM"
    /\ fnArgs.surfaceFormats[2] =
           SurfaceFormat("VK_FORMAT_B8G8R8A8_UNORM", "VK_COLOR_SPACE_EXTENDED_SRGB_LINEAR_EXT")
    /\ fnArgs.surfaceFormats[3] = PreferredSurfaceFormat
    /\ fnRet[1] = [thrown |-> NoThrow, format |-> PreferredSurfaceFormat]

\* the empty list ends in the error
C33_WitnessEmpty ==
    /\ fnArgs.fn = "PickSwapSurfaceFormat" /\ fnRet # << >>
    /\ fnArgs.surfaceFormats = << >>
    /\ fnRet[1].thrown = "no Vulkan surface formats available"

\* the single entry 'undefined' yields the preferred pair; any other list without it, its front
C33_WitnessUndefined ==
    /\ fnArgs.fn = "PickSwapSurfaceFormat" /\ fnRet # << >>
    /\ fnArgs.surfaceFormats =
           << SurfaceFormat("VK_FORMAT_UNDEFINED", "VK_COLOR_SPACE_EXTENDED_SRGB_LINEAR_EXT") >>
    /\ fnRet[1].format = PreferredSurfaceFormat

HasStencil(format) ==
    format \in { "VK_FORMAT_D32_SFLOAT_S8_UINT", "VK_FORMAT_D24_UNORM_S8_UINT",
                 "VK_FORMAT_D16_UNORM_S8_UINT" }

(***************************************************************************)
(* C34: Stencil request is honoured by the preference list.  For every     *)
(* (depthBits, stencilBits) the depth-stencil preference list is           *)
(* non-empty, and when stencilBits > 0 every candidate in the list has a   *)
(* stencil component, so the format picked from the list never lacks       *)
(* stencil when stencil was requested.                                     *)
(***************************************************************************)
C34_StencilHonoured ==
    (fnArgs.fn = "PickDepthStencilFormat" /\ fnRet # << >>) =>
        /\ fnRet[1].formats # << >>
        /\ fnArgs.stencilBits > 0 =>
               /\ \A i \in 1..Len(fnRet[1].formats) : HasStencil(fnRet[1].formats[i])
               /\ fnRet[1].picked \in DepthStencilFormats => HasStencil(fnRet[1].picked)

\* the preference list is never empty
C34_PreferenceNonEmpty ==
    (fnArgs.fn = "PickDepthStencilFormat" /\ fnRet # << >>) => fnRet[1].formats # << >>

\* with 32 depth bits a stencil request is honoured by every candidate and by the pick
C34_StencilHonouredAt32Bits ==
    (fnArgs.fn = "PickDepthStencilFormat" /\ fnRet # << >>
        /\ fnArgs.stencilBits > 0 /\ fnArgs.depthBits = 32) =>
        /\ \A i \in 1..Len(fnRet[1].formats) : HasStencil(fnRet[1].formats[i])
        /\ fnRet[1].picked \in DepthStencilFormats => HasStencil(fnRet[1].picked)


(***************************************************************************)
(* D3D12Device::CreateDXDevice as a pure function of the feature levels,   *)
(* of what D3D12CreateDevice answers for each level, and of the members    *)
(* before the call                                                         *)
(***************************************************************************)
MaxLevels == 2

FeatureLevels == { "D3D_FEATURE_LEVEL_12_1", "D3D_FEATURE_LEVEL_12_0", "D3D_FEATURE_LEVEL_11_0" }

HResults == { "S_OK", "E_INVALIDARG", "DXGI_ERROR_UNSUPPORTED" }

SUCCEEDED(hr) == hr = "S_OK"

\* the loop of CreateDXDevice over the levels not yet tried; d holds hr, the members and the
\* levels tried so far; a created device has handle 2, a device from before the call handle 1
RECURSIVE TryFeatureLevels(_, _, _)
TryFeatureLevels(d, levels, results) ==
    IF levels = << >> THEN d
    ELSE LET level == Head(levels)
             hr    == results[level]
             tried == [d EXCEPT !.hr = hr,
                                !.device_ = IF SUCCEEDED(hr) THEN 2 ELSE nullptr,
                                !.attempts = Append(@, level)]
         IN  IF SUCCEEDED(hr) THEN [tried EXCEPT !.featureLevel_ = level]
             ELSE TryFeatureLevels(tried, Tail(levels), results)

CreateDXDevice(featureLevels, results, featureLevel, device) ==
    TryFeatureLevels([hr |-> "S_OK", featureLevel_ |-> featureLevel, device_ |-> device,
                      attempts |-> << >>],
                     featureLevels, results)

CreateDeviceArgs ==
    { [fn |-> "CreateDXDevice", featureLevels |-> l, results |-> r, featureLevel_ |-> f, device_ |-> d] :
        l \in ListsOf(FeatureLevels, MaxLevels), r \in [FeatureLevels -> HResults],
        f \in {None, "D3D_FEATURE_LEVEL_11_0"}, d \in {nullptr, 1} }

InitCreateDevice ==
    /\ fnArgs \in CreateDeviceArgs
    /\ fnRet = << >>
    /\ OthersIdle({"fn"})

CallCreateDXDevice ==
    /\ fnArgs.fn = "CreateDXDevice"
    /\ fnRet = << >>
    /\ fnRet' = << CreateDXDevice(fnArgs.featureLevels, fnArgs.results, fnArgs.featureLevel_,
                                  fnArgs.device_) >>
    /\ UNCHANGED <<fnArgs, imgLayout, cmdBuffer, execPos, devCall, mem, memCall, rc, rcCall, fl,
                   backendVars>>

NextCreateDevice == CallCreateDXDevice

SpecCreateDevice == InitCreateDevice /\ [][NextCreateDevice]_vars

\* the levels are tried in list order up to and including the first that succeeds
TriedInOrder(levels, results, attempts) ==
    /\ Len(attempts) <= Len(levels)
    /\ \A i \in 1..Len(attempts) : attempts[i] = levels[i]
    /\ \A i \in 1..(Len(attempts) - 1) : ~SUCCEEDED(results[attempts[i]])
    /\ Len(attempts) < Len(levels) => SUCCEEDED(results[attempts[Len(attempts)]])

(***************************************************************************)
(* C38: Device creation result.  CreateDXDevice tries the feature levels   *)
(* in list order and stops at the first that succeeds, storing that level  *)
(* in featureLevel_; it returns a success code only when a device has      *)
(* actually been created, for every list of feature levels including the   *)
(* empty list, and returns the failure of the last attempt when every      *)
(* level fails, leaving featureLevel_ unchanged.                           *)
(***************************************************************************)
C38_DeviceCreationResult ==
    (fnArgs.fn = "CreateDXDevice" /\ fnRet # << >>) =>
        LET levels   == fnArgs.featureLevels
            attempts == fnRet[1].attempts
            created  == \E i \in 1..Len(attempts) : SUCCEEDED(fnArgs.results[attempts[i]])
        IN  /\ Len(levels) > 0 => TriedInOrder(levels, fnArgs.results, attempts)
            /\ Len(levels) = 0 => attempts = << >>
            /\ created => fnRet[1].featureLevel_ = attempts[Len(attempts)]
            /\ SUCCEEDED(fnRet[1].hr) => created /\ fnRet[1].device_ = 2
            /\ (Len(levels) > 0 /\ ~created) =>
                   /\ fnRet[1].hr = fnArgs.results[levels[Len(levels)]]
                   /\ fnRet[1].featureLevel_ = fnArgs.featureLevel_
            /\ ~created => fnRet[1].featureLevel_ = fnArgs.featureLevel_

\* for a non-empty list the result is as claimed
C38_ResultForNonEmptyList ==
    (fnArgs.fn = "CreateDXDevice" /\ fnRet # << >> /\ fnArgs.featureLevels # << >>) =>
        LET levels   == fnArgs.featureLevels
            attempts == fnRet[1].attempts
            created  == \E i \in 1..Len(attempts) : SUCCEEDED(fnArgs.results[attempts[i]])
        IN  /\ TriedInOrder(levels, fnArgs.results, attempts)
            /\ created => fnRet[1].featureLevel_ = attempts[Len(attempts)]
            /\ SUCCEEDED(fnRet[1].hr) <=> created
            /\ created <=> fnRet[1].device_ = 2
            /\ ~created =>
                   /\ fnRet[1].hr = fnArgs.results[levels[Len(levels)]]
                   /\ fnRet[1].featureLevel_ = fnArgs.featureLevel_


(***************************************************************************)
(* C35: Pop on an empty stack is fatal.  PopState, PopStates(count) with   *)
(* count larger than the stack depth, PopBoundBuffer, PopBoundTexture,     *)
(* PopBoundFramebuffer or PopBoundRenderbuffer called when the stack of    *)
(* its kind is empty ends in the fatal error state and changes neither the *)
(* cache nor the native state; PopStates with a count beyond the depth is  *)
(* fatal as well.                                                          *)
(***************************************************************************)
C35_PopOnEmptyFatal ==
    [][ /\ ( /\ glCall'.op \in {"Pop", "PopStates"}
             /\ gl.stacks[glCall'.slot.kind] = << >> )
            => /\ gl'.fatal # ""
               /\ gl'.contextState = gl.contextState
               /\ gl'.native = gl.native
               /\ gl'.stacks = gl.stacks
               /\ glCall'.native = << >>
        /\ ( /\ glCall'.op = "PopStates"
             /\ glCall'.value > Len(gl.stacks["Capability"]) )
            => gl'.fatal # ""
        /\ ( /\ glCall'.op \in {"Pop", "PopStates"}
             /\ gl.stacks[glCall'.slot.kind] # << >>
             /\ glCall'.op = "PopStates" => glCall'.value <= Len(gl.stacks["Capability"]) )
            => gl'.fatal = ""
      ]_vars

\* a pop met an empty stack after state had been set: fatal, with the state as it was
C35_Witness ==
    /\ glCall.op = "Pop" /\ gl.fatal # ""
    /\ gl.stacks[glCall.slot.kind] = << >>
    /\ gl.contextState # InitialContextState
    /\ gl.native = gl.contextState

\* PopStates ran past the bottom of the stack
C35_WitnessPopStates ==
    /\ glCall.op = "PopStates" /\ gl.fatal # ""
    /\ glCall.value = MaxStackDepth + 1
    /\ glScope.phase = "off"


\* the entry on top of the stack of a kind
TopOf(g, kind) == g.stacks[kind][Len(g.stacks[kind])]

\* the native calls of the call just made are exactly the one that sets the saved entry
SetsSaved(entry) ==
    /\ Len(glCall'.native) = 1
    /\ glCall'.native[1] =
           IF entry.slot.kind # "Capability" THEN "glBind"
           ELSE IF entry.value THEN "glEnable" ELSE "glDisable"
    /\ Cached(gl'.native, entry.slot) = entry.value

C36_RestoreDiffedOnActiveUnit ==
    [][ ( /\ glCall'.op = "Pop"
          /\ gl.stacks[glCall'.slot.kind] # << >>
          /\ glCall'.slot.kind = "Texture" =>
                 TopOf(gl, "Texture").slot.index = gl.contextState.activeTexture )
            => LET entry == TopOf(gl, glCall'.slot.kind)
               IN  IF Cached(gl.contextState, entry.slot) = entry.value
                   THEN glCall'.native = << >>
                   ELSE SetsSaved(entry)
      ]_vars

\* the first half alone: a Pop directly after the Push of its kind issues no native
\* call (fails for a texture binding pushed from a unit that is not the active one)
C36_PushPopIssuesNothing ==
    [][ ( /\ glCall.op = "Push" /\ glCall'.op = "Pop"
          /\ glCall'.slot.kind = glCall.slot.kind )
            => glCall'.native = << >> ]_vars


(***************************************************************************)
(* GLStateManager: write masks and clears                                  *)
(*                                                                         *)
(* The cache and the context each hold a color write mask (the channels    *)
(* written), a depth write mask and a stencil write mask.  A clear saves   *)
(* the masks, forces full writes for the channels it clears, issues the    *)
(* native clear and restores the masks from the cache.  An operation is an *)
(* operator over w = [gl, masks, calls]: masks is the                      *)
(* GLIntermediateBufferWriteMasks of the call, calls the native calls      *)
(* issued so far, each with the native masks it was issued under.          *)
(***************************************************************************)
\* the attachments one ClearBuffers call is given at most
MaxAttachments == 2

ColorChannels == {"R", "G", "B", "A"}
ColorMasks == { {}, {"R", "G", "B"}, ColorChannels }
StencilMasks == {"0x00", "0x0F", "0xFF"}

\* the write mask that lets a clear of the channel set through
FullMask(channel) ==
    CASE channel = "colorMask"   -> ColorChannels
      [] channel = "depthMask"   -> TRUE
      [] channel = "stencilMask" -> "0xFF"

\* the masks of a new context: everything is written
InitialWriteMasks == [colorMask |-> ColorChannels, depthMask |-> TRUE, stencilMask |-> "0xFF"]

NoIntermediateMasks == [colorMask |-> FALSE, depthMask |-> FALSE, stencilMask |-> FALSE]

\* glColorMask, glDepthMask, glStencilMask
GLMaskCall(w, channel, value) ==
    LET native == [w.gl.native EXCEPT ![channel] = value]
    IN  [w EXCEPT !.gl.native = native,
                  !.calls = Append(@, [fn |-> "glMask", channel |-> channel, masks |-> native])]

\* glClearBufferfv / glClearBufferiv / glClearBufferfi on the given channel sets
GLClearCall(w, channels) ==
    [w EXCEPT !.calls = Append(@, [fn |-> "glClear", channel |-> channels, masks |-> w.gl.native])]

\* BindBlendState (color mask), SetDepthMask, BindDepthStencilState (stencil mask)
SetWriteMask(w, channel, value) ==
    IF w.gl.contextState[channel] # value
    THEN [GLMaskCall(w, channel, value) EXCEPT !.gl.contextState[channel] = value]
    ELSE w

\* PrepareColorMaskForClear, PrepareDepthMaskForClear, PrepareStencilMaskForClear:
\* full writes are forced in the context once per call; the cache keeps the mask
PrepareMaskForClear(w, channel) ==
    IF ~w.masks[channel] /\ w.gl.contextState[channel] # FullMask(channel)
    THEN [GLMaskCall(w, channel, FullMask(channel)) EXCEPT !.masks[channel] = TRUE]
    ELSE w

\* the clear that leaves the forced masks in the context
RestoreWriteMasks_NoRestore(w) == w

RECURSIVE RestoreMasks(_, _)
RestoreMasks(w, channels) ==
    IF channels = {} THEN w
    ELSE LET channel == CHOOSE c \in channels : TRUE
             w1 == IF w.masks[channel]
                   THEN [GLMaskCall(w, channel, w.gl.contextState[channel])
                            EXCEPT !.masks[channel] = FALSE]
                   ELSE w
         IN  RestoreMasks(w1, channels \ {channel})

RestoreWriteMasks(w) == RestoreMasks(w, {"colorMask", "depthMask", "stencilMask"})

\* the channel sets an attachment clear or a render-pass attachment covers
ClearFlags == { {"colorMask"}, {"depthMask"}, {"stencilMask"}, {"depthMask", "stencilMask"} }

\* one attachment: the masks of its channels are prepared, then it is cleared
ClearAttachment(w, flags) ==
    LET w1 == IF "colorMask"   \in flags THEN PrepareMaskForClear(w,  "colorMask")   ELSE w
        w2 == IF "depthMask"   \in flags THEN PrepareMaskForClear(w1, "depthMask")   ELSE w1
        w3 == IF "stencilMask" \in flags THEN PrepareMaskForClear(w2, "stencilMask") ELSE w2
    IN  GLClearCall(w3, flags)

RECURSIVE ClearEach(_, _)
ClearEach(w, attachments) ==
    IF attachments = << >> THEN w
    ELSE ClearEach(ClearAttachment(w, Head(attachments)), Tail(attachments))

\* ClearBuffers(numAttachments, attachments)
ClearBuffers(w, attachments) == RestoreWriteMasks(ClearEach(w, attachments))

\* ClearAttachmentsWithRenderPass: the attachments the render pass loads by clearing
ClearAttachmentsWithRenderPass(w, renderPass) ==
    LET color == IF "colorMask" \in renderPass THEN ClearAttachment(w, {"colorMask"}) ELSE w
        depthStencil ==
            IF renderPass \ {"colorMask"} # {}
            THEN ClearAttachment(color, renderPass \ {"colorMask"})
            ELSE color
    IN  RestoreWriteMasks(depthStencil)

StartClear == [gl |-> gl, masks |-> NoIntermediateMasks, calls |-> << >>]

FinishClear(op, value, w) ==
    /\ gl' = w.gl
    /\ glCall' = [op |-> op, value |-> value, native |-> w.calls]
    /\ UNCHANGED <<fnArgs, fnRet, imgLayout, cmdBuffer, execPos, devCall, mem, memCall,
                   rc, rcCall, fl, pso, cmdContext, glScope, glStream>>

InitClear ==
    /\ gl = [contextState |-> InitialWriteMasks, native |-> InitialWriteMasks]
    /\ glCall = [op |-> "", value |-> << >>, native |-> << >>]
    /\ glScope = NoScope
    /\ OthersIdle({"gl"})

BindBlendState ==
    \E colorMask \in ColorMasks :
        FinishClear("BindBlendState", colorMask, SetWriteMask(StartClear, "colorMask", colorMask))

SetDepthMask ==
    \E flag \in BOOLEAN :
        FinishClear("SetDepthMask", flag, SetWriteMask(StartClear, "depthMask", flag))

BindDepthStencilState ==
    \E stencilMask \in StencilMasks :
        FinishClear("BindDepthStencilState", stencilMask,
                    SetWriteMask(StartClear, "stencilMask", stencilMask))

DoClearBuffers ==
    \E attachments \in ListsOf(ClearFlags, MaxAttachments) :
        FinishClear("ClearBuffers", attachments, ClearBuffers(StartClear, attachments))

DoClearAttachmentsWithRenderPass ==
    \E renderPass \in SUBSET {"colorMask", "depthMask", "stencilMask"} :
        FinishClear("ClearAttachmentsWithRenderPass", renderPass,
                    ClearAttachmentsWithRenderPass(StartClear, renderPass))

NextClear ==
    \/ BindBlendState
    \/ SetDepthMask
    \/ BindDepthStencilState
    \/ DoClearBuffers
    \/ DoClearAttachmentsWithRenderPass

SpecClear == InitClear /\ [][NextClear]_vars

ClearOps == {"ClearBuffers", "ClearAttachmentsWithRenderPass"}

(***************************************************************************)
(* C37: Clears preserve write masks.  For every ClearBuffers and           *)
(* ClearAttachmentsWithRenderPass call and every prior color, depth and    *)
(* stencil write mask, each native clear is issued while the write mask of *)
(* every channel set it clears is fully enabled, and after the call both   *)
(* the cached and the native write masks equal their values before the     *)
(* call.                                                                   *)
(***************************************************************************)
C37_ClearPreservesMasks ==
    [][ glCall'.op \in ClearOps =>
            /\ \A k \in 1 .. Len(glCall'.native) :
                   glCall'.native[k].fn = "glClear" =>
                       \A channel \in glCall'.native[k].channel :
                           glCall'.native[k].masks[channel] = FullMask(channel)
            /\ gl'.contextState = gl.contextState
            /\ gl'.native = gl.native
      ]_vars

\* the cache and the context hold the same masks between the calls
C37_CacheMatchesContext == gl.native = gl.contextState

\* a ClearBuffers call cleared color and depth-stencil while color and stencil writes
\* were restricted and depth writes were off: masks forced, cleared, and restored
C37_Witness ==
    /\ glCall.op = "ClearBuffers"
    /\ glCall.value = << {"colorMask"}, {"depthMask", "stencilMask"} >>
    /\ gl.contextState = [colorMask |-> {"R", "G", "B"}, depthMask |-> FALSE, stencilMask |-> "0x0F"]
    /\ gl.native = gl.contextState
    /\ Len(glCall.native) = 8

\* the same for a render pass that clears every attachment
C37_WitnessRenderPass ==
    /\ glCall.op = "ClearAttachmentsWithRenderPass"
    /\ glCall.value = {"colorMask", "depthMask", "stencilMask"}
    /\ gl.contextState = [colorMask |-> {}, depthMask |-> FALSE, stencilMask |-> "0x00"]
    /\ gl.native = gl.contextState
    /\ Len(glCall.native) = 8

=============================================================================
